---- MODULE Spec2Model ----
(***************************************************************************)
(* Verification model of the cycling trainer application:                  *)
(*   BLEManager      (src/src/ble_manager.py)     -- "DeviceLink"          *)
(*   WorkoutManager  (src/src/workout_manager.py) -- "TrainingController"  *)
(*   app.py handlers and the workout update loop                           *)
(* Objects are records whose fields carry the names of the attributes of   *)
(* the Python objects.  Every method is an operator from the object's      *)
(* state (and the outcome of the I/O it performs) to the state it leaves   *)
(* and the value it returns; an action applies one handler.                *)
(***************************************************************************)
EXTENDS Integers, Sequences, FiniteSets, TLC

VARIABLES
    ble,        \* the BLEManager object and what the trainers received from it
    ble_ret,    \* name and return value of the last BLEManager operation, and
                \* the watts a set_target_power of the device link was given
    wm,         \* the WorkoutManager object
    out,        \* the last WorkoutManager operation: its name, the callbacks it
                \* made in order (ev) and the value it returned (ret)
    obs,        \* what the listeners of the WorkoutManager have been told so far
    builder,    \* a _build_workout call in progress on another thread
    app,        \* app.py: workout_active and the threads of the handlers
    fit,        \* the FitExporter object and the files it has written
    rx,         \* the notification decoders of the BLEManager and their last results
    za,         \* the ZoneAnalyzer object and the alerts of its last update
    ramp,       \* a WorkoutSegment and what get_power_at_time returned for it
    enc,        \* a record log and the FIT file built from it
    pace,       \* stopwatches beside the WorkoutManager: the seconds since
                \* adaptive mode was armed and since its power last changed
    tally,      \* what the listeners of the WorkoutManager counted since the
                \* last start: completion callbacks, and ticks after the end
    sev         \* the HR-zone alert of the last ZoneAnalyzer update with its
                \* severity, and the heart rate and zone the update was given

(***************************************************************************)
(* Bounds                                                                  *)
(***************************************************************************)
MaxClients == 3          \* BleakClient objects created in one behaviour
MaxAddr == 1             \* trainer addresses are 1..MaxAddr
Watts == {100, 150}      \* powers a caller asks for
FTPs == {215, 300}       \* FTP values given to set_ftp
HrZones == {<<124, 143>>, <<130, 150>>}   \* bounds given to set_hr_zones
HRVals == {110, 150}     \* heart rates the monitor reports
MaxHrRuns == 1
TimeSteps == {150, 3000} \* seconds the clock advances between two operations
CoarseFTPs == {300}          \* the same, where heart-rate feedback is followed
CoarseTimeSteps == {1500, 3000}  \* the same, where heart-rate feedback is followed
MaxElapsed == 3000       \* segment_elapsed is followed up to this value

None == 0                \* Python None for client and address
Addrs == 1..MaxAddr

(***************************************************************************)
(* BLEManager                                                              *)
(*   trainer_client   0 (None) or the number of a BleakClient object       *)
(*   connected        the client objects whose is_connected is True        *)
(*   clients          how many BleakClient objects have been created       *)
(* What the trainer at the other end of each client has seen:              *)
(*   rc_tried   clients on which a request-control write was issued        *)
(*   rc_ok      clients on which a request-control write returned          *)
(*   bare_stp   clients that received a set-target-power command before    *)
(*              any request-control write was issued on them               *)
(*   erg_held   clients whose trainer holds an ERG target (set-target-power *)
(*              received, no reset received since)                         *)
(***************************************************************************)
BLEManagerInit ==
    [ trainer_client |-> None, trainer_address |-> None,
      has_control |-> FALSE, erg_mode_active |-> FALSE,
      current_target_power |-> 0,
      clients |-> 0, connected |-> {},
      rc_tried |-> {}, rc_ok |-> {}, bare_stp |-> {}, erg_held |-> {} ]

is_trainer_connected(b) ==
    b.trainer_client # None /\ b.trainer_client \in b.connected

\* _request_control: ok is whether write_gatt_char returns (TRUE) or raises.
request_control(b, ok) ==
    IF ~is_trainer_connected(b)
    THEN [b |-> b, ret |-> FALSE]
    ELSE [b |-> [b EXCEPT !.rc_tried = @ \cup {b.trainer_client},
                          !.rc_ok = IF ok THEN @ \cup {b.trainer_client} ELSE @,
                          !.has_control = IF ok THEN TRUE ELSE @],
          ret |-> ok]

\* set_target_power: ok_rc and ok_w are the outcomes of the two writes.
set_target_power(b, watts, ok_rc, ok_w) ==
    IF ~is_trainer_connected(b)
    THEN [b |-> b, ret |-> FALSE]
    ELSE LET b1 == IF ~b.has_control THEN request_control(b, ok_rc).b ELSE b
         IN  IF ok_w
             THEN [b |-> [b1 EXCEPT !.current_target_power = watts,
                                    !.erg_mode_active = TRUE,
                                    !.erg_held = @ \cup {b1.trainer_client},
                                    !.bare_stp = IF b1.trainer_client \in b1.rc_tried
                                                 THEN @ ELSE @ \cup {b1.trainer_client}],
                   ret |-> TRUE]
             ELSE [b |-> b1, ret |-> FALSE]

\* A faulty stop_erg_mode: the fields are cleared before the write is tried.
stop_erg_mode_clears_first(b, ok) ==
    IF ~is_trainer_connected(b)
    THEN [b |-> b, ret |-> FALSE]
    ELSE LET b1 == [b EXCEPT !.erg_mode_active = FALSE, !.current_target_power = 0]
         IN  IF ok
             THEN [b |-> [b1 EXCEPT !.erg_held = @ \ {b.trainer_client}], ret |-> TRUE]
             ELSE [b |-> b1, ret |-> FALSE]

stop_erg_mode(b, ok) ==
    IF ~is_trainer_connected(b)
    THEN [b |-> b, ret |-> FALSE]
    ELSE IF ok
         THEN [b |-> [b EXCEPT !.erg_mode_active = FALSE,
                               !.current_target_power = 0,
                               !.erg_held = @ \ {b.trainer_client}],
               ret |-> TRUE]
         ELSE [b |-> b, ret |-> FALSE]

\* disconnect_trainer: ok is the outcome of the reset write, if one is made.
disconnect_trainer(b, ok) ==
    LET b1 == IF b.erg_mode_active THEN stop_erg_mode(b, ok).b ELSE b
        b2 == IF is_trainer_connected(b1)
              THEN [b1 EXCEPT !.connected = @ \ {b1.trainer_client}]
              ELSE b1
    IN  [b2 EXCEPT !.trainer_client = None, !.has_control = FALSE]

\* disconnect: the trainer part (the HR monitor client is not modelled).
disconnect(b, ok) ==
    LET b1 == IF b.erg_mode_active THEN stop_erg_mode(b, ok).b ELSE b
    IN  IF is_trainer_connected(b1)
        THEN [b1 EXCEPT !.connected = @ \ {b1.trainer_client}]
        ELSE b1

ConnectOutcomes == {"connect_raises", "subscribe_raises", "control_raises", "ok"}

\* connect_trainer: a new BleakClient replaces trainer_client before connect()
\* is awaited; an exception from connect() or start_notify() is caught and
\* False returned; _request_control() catches its own exception.
connect_trainer(b, outcome) ==
    IF b.trainer_address = None
    THEN [b |-> b, ret |-> FALSE]
    ELSE LET n  == b.clients + 1
             b1 == [b EXCEPT !.trainer_client = n, !.clients = n]
             b2 == [b1 EXCEPT !.connected = @ \cup {n}]
         IN  CASE outcome = "connect_raises"   -> [b |-> b1, ret |-> FALSE]
               [] outcome = "subscribe_raises" -> [b |-> b2, ret |-> FALSE]
               [] outcome = "control_raises"   -> [b |-> request_control(b2, FALSE).b, ret |-> TRUE]
               [] OTHER                        -> [b |-> request_control(b2, TRUE).b, ret |-> TRUE]

connect_to_device(b, address, ok_reset, outcome) ==
    LET b1 == IF is_trainer_connected(b) THEN disconnect_trainer(b, ok_reset) ELSE b
    IN  connect_trainer([b1 EXCEPT !.trainer_address = address], outcome)

\* scan_for_devices: found is the address of the device matching trainer_name,
\* or None when no such device is seen.
scan_for_devices(b, found) ==
    IF found = None THEN b ELSE [b EXCEPT !.trainer_address = found]

\* handle_scan.do_scan: scan, then connect_trainer() if the trainer was found.
do_scan(b, found, outcome) ==
    LET b1 == scan_for_devices(b, found)
    IN  IF found # None THEN connect_trainer(b1, outcome) ELSE [b |-> b1, ret |-> TRUE]


(***************************************************************************)
(* WorkoutManager                                                          *)
(* Times are whole seconds.  The code stores time.time() in                *)
(* segment_start_time and _last_hr_adjustment_time and only ever uses the  *)
(* differences now - segment_start_time and now - _last_hr_adjustment_time;*)
(* the model keeps these two differences, segment_elapsed and              *)
(* hr_adjustment_age, and lets the clock advance both.                     *)
(***************************************************************************)
NoPower == -1                 \* update / get_hr_adjusted_power returning None
hr_adjustment_interval == 30  \* seconds between two HR adjustments
power_step == 5               \* watts per adjustment step
min_hr_samples == 10          \* samples needed before an adjustment
max_hr_samples == 30          \* capacity of the HR sample window
DefaultFtp == 215
DefaultHrLow == 124
DefaultHrHigh == 143

WORKOUT_LIBRARY == {"zone2", "vo2max", "sweet_spot", "tempo"}

Min(a, b) == IF a < b THEN a ELSE b
Max(a, b) == IF a > b THEN a ELSE b

\* int(ftp * p/100) for p in {40, 50, 55, 65, 80, 90, 97, 120}: the float
\* product truncates to the integer quotient for every ftp in 0..1000.
Pct(ftp, p) == (ftp * p) \div 100

zone2_power(c) == Pct(c.ftp, 65)
zone2_low(c) == Pct(c.ftp, 50)
zone2_high(c) == Pct(c.ftp, 80)
warmup_start_power(c) == Pct(c.ftp, 40)
cooldown_end_power(c) == Pct(c.ftp, 40)
hr_target(c) == (c.hr_zone2_low + c.hr_zone2_high) \div 2

WorkoutSegment(n, d, ps, pe, ph) ==
    [name |-> n, duration_seconds |-> d, target_power_start |-> ps,
     target_power_end |-> pe, phase |-> ph]

\* A faulty get_power_at_time: progress is not capped at 1.0.
get_power_at_time_uncapped(seg, elapsed_seconds) ==
    IF seg.target_power_start = seg.target_power_end
    THEN seg.target_power_start
    ELSE (seg.target_power_start * seg.duration_seconds
          + (seg.target_power_end - seg.target_power_start) * elapsed_seconds)
         \div seg.duration_seconds

\* WorkoutSegment.get_power_at_time: int() of the linear interpolation; the
\* powers are not negative, so truncation is the integer quotient.
get_power_at_time(seg, elapsed_seconds) ==
    IF seg.target_power_start = seg.target_power_end
    THEN seg.target_power_start
    ELSE IF elapsed_seconds >= seg.duration_seconds
         THEN seg.target_power_end
         ELSE (seg.target_power_start * seg.duration_seconds
               + (seg.target_power_end - seg.target_power_start) * elapsed_seconds)
              \div seg.duration_seconds

Vo2maxAppends == 10     \* interval 1..5, recovery 1..4 and the cooldown

\* The vo2max list as _build_workout grows it: the warmup, then k appended
\* segments (interval 1, recovery 1, ..., interval 5, cooldown), k in 0..10.
Vo2maxPrefix(c, k) ==
    LET vo2 == Pct(c.ftp, 120)
        rec == Pct(c.ftp, 50)
        IntervalName == <<"Interval 1", "Interval 2", "Interval 3", "Interval 4", "Interval 5">>
        RecoveryName == <<"Recovery 1", "Recovery 2", "Recovery 3", "Recovery 4">>
        Nth(j) == IF j = 10
                  THEN WorkoutSegment("Cooldown", 300, rec, cooldown_end_power(c), "cooldown")
                  ELSE IF j % 2 = 1
                       THEN WorkoutSegment(IntervalName[(j + 1) \div 2], 180, vo2, vo2, "interval")
                       ELSE WorkoutSegment(RecoveryName[j \div 2], 180, rec, rec, "recovery")
    IN  <<WorkoutSegment("Warmup", 300, warmup_start_power(c), Pct(c.ftp, 65), "warmup")>>
        \o [j \in 1..k |-> Nth(j)]

\* _build_workout: the segment list it leaves for a workout type.
build_segments(c, workout_type) ==
    CASE workout_type = "zone2" ->
           << WorkoutSegment("Warmup", 300, warmup_start_power(c), zone2_power(c), "warmup"),
              WorkoutSegment("Zone 2", 3000, zone2_power(c), zone2_power(c), "main"),
              WorkoutSegment("Cooldown", 300, zone2_power(c), cooldown_end_power(c), "cooldown") >>
      [] workout_type = "vo2max" -> Vo2maxPrefix(c, Vo2maxAppends)
      [] workout_type = "sweet_spot" ->
           << WorkoutSegment("Warmup", 300, warmup_start_power(c), Pct(c.ftp, 65), "warmup"),
              WorkoutSegment("Sweet Spot 1", 1200, Pct(c.ftp, 90), Pct(c.ftp, 90), "main"),
              WorkoutSegment("Recovery", 300, Pct(c.ftp, 55), Pct(c.ftp, 55), "recovery"),
              WorkoutSegment("Sweet Spot 2", 1200, Pct(c.ftp, 90), Pct(c.ftp, 90), "main"),
              WorkoutSegment("Cooldown", 300, Pct(c.ftp, 55), cooldown_end_power(c), "cooldown") >>
      [] workout_type = "tempo" ->
           << WorkoutSegment("Warmup", 300, warmup_start_power(c), Pct(c.ftp, 65), "warmup"),
              WorkoutSegment("Tempo 1", 900, Pct(c.ftp, 97), Pct(c.ftp, 97), "main"),
              WorkoutSegment("Recovery", 300, Pct(c.ftp, 55), Pct(c.ftp, 55), "recovery"),
              WorkoutSegment("Tempo 2", 900, Pct(c.ftp, 97), Pct(c.ftp, 97), "main"),
              WorkoutSegment("Cooldown", 300, Pct(c.ftp, 55), cooldown_end_power(c), "cooldown") >>
      [] OTHER -> c.segments

build_workout(w, workout_type) ==
    [w EXCEPT !.current_workout_type = workout_type,
              !.segments = build_segments(w, workout_type)]

WorkoutManagerInit ==
    build_workout(
        [ ftp |-> DefaultFtp, hr_zone2_low |-> DefaultHrLow, hr_zone2_high |-> DefaultHrHigh,
          segments |-> <<>>, current_segment_index |-> -1,
          segment_elapsed |-> 0,
          last_target_power |-> 0, is_running |-> FALSE,
          current_workout_type |-> "zone2",
          hr_target_mode |-> FALSE, current_adaptive_power |-> 0,
          hr_adjustment_age |-> hr_adjustment_interval,
          hr_samples |-> <<>> ],
        "zone2")

set_workout_type(w, workout_type) ==
    IF workout_type \in WORKOUT_LIBRARY THEN build_workout(w, workout_type) ELSE w

\* A faulty set_ftp: the default workout is rebuilt.
set_ftp_default_workout(w, ftp) ==
    build_workout([w EXCEPT !.ftp = ftp], "zone2")

set_ftp(w, ftp) ==
    build_workout([w EXCEPT !.ftp = ftp], w.current_workout_type)

set_hr_zones(w, hr_low, hr_high) ==
    [w EXCEPT !.hr_zone2_low = hr_low, !.hr_zone2_high = hr_high]

\* Callbacks.  seg is the index of the segment the callback is about (the
\* segment entered, or the segment whose power was computed).
PhaseChange(seg, phase, name) == [kind |-> "phase", seg |-> seg, phase |-> phase, name |-> name, power |-> NoPower]
PowerChange(seg, power) == [kind |-> "power", seg |-> seg, phase |-> "", name |-> "", power |-> power]
WorkoutComplete(seg) == [kind |-> "complete", seg |-> seg, phase |-> "", name |-> "", power |-> NoPower]

Result(w, ev, ret) == [w |-> w, ev |-> ev, ret |-> ret]

start_power_first(w) ==
    LET segment == w.segments[1]
        initial_power == get_power_at_time(segment, 0)
    IN  Result([w EXCEPT !.segment_elapsed = 0,
                         !.current_segment_index = 0,
                         !.is_running = TRUE,
                         !.hr_target_mode = FALSE,
                         !.current_adaptive_power = zone2_power(w),
                         !.hr_adjustment_age = 0,
                         !.hr_samples = <<>>,
                         !.last_target_power = initial_power],
               << PowerChange(0, initial_power),
                  PhaseChange(0, segment.phase, segment.name) >>,
               NoPower)

start(w) ==
    LET segment == w.segments[1]
        initial_power == get_power_at_time(segment, 0)
    IN  Result([w EXCEPT !.segment_elapsed = 0,
                         !.current_segment_index = 0,
                         !.is_running = TRUE,
                         !.hr_target_mode = FALSE,
                         !.current_adaptive_power = zone2_power(w),
                         !.hr_adjustment_age = 0,
                         !.hr_samples = <<>>,
                         !.last_target_power = initial_power],
               << PhaseChange(0, segment.phase, segment.name),
                  PowerChange(0, initial_power) >>,
               NoPower)

stop_keeps_index(w) ==
    [w EXCEPT !.is_running = FALSE, !.hr_target_mode = FALSE, !.hr_samples = <<>>]

stop(w) ==
    [w EXCEPT !.is_running = FALSE, !.current_segment_index = -1,
              !.hr_target_mode = FALSE, !.hr_samples = <<>>]

\* A faulty add_hr_sample: a full window refuses the new sample.
add_hr_sample_keeps_oldest(w, hr) ==
    IF w.hr_target_mode /\ Len(w.hr_samples) < max_hr_samples
    THEN [w EXCEPT !.hr_samples = Append(@, hr)]
    ELSE w

add_hr_sample(w, hr) ==
    IF w.hr_target_mode
    THEN LET s == Append(w.hr_samples, hr)
         IN  [w EXCEPT !.hr_samples = IF Len(s) > max_hr_samples THEN Tail(s) ELSE s]
    ELSE w

RECURSIVE SeqSum(_)
SeqSum(s) == IF s = <<>> THEN 0 ELSE Head(s) + SeqSum(Tail(s))

\* get_hr_adjusted_power: avg_hr = sum/len is compared with integers, which is
\* the comparison of sum with len times the integer.
\* A faulty get_hr_adjusted_power: the new power is not clamped to the band.
get_hr_adjusted_power_unclamped(w) ==
    IF ~w.hr_target_mode \/ Len(w.hr_samples) < min_hr_samples
    THEN Result(w, <<>>, NoPower)
    ELSE IF w.hr_adjustment_age < hr_adjustment_interval
    THEN Result(w, <<>>, NoPower)
    ELSE LET n == Len(w.hr_samples)
             total == SeqSum(w.hr_samples)
             Above(k) == total > k * n
             Below(k) == total < k * n
             old_power == w.current_adaptive_power
             new_power ==
                 IF Above(w.hr_zone2_high + 5) THEN old_power - power_step * 2
                 ELSE IF Above(w.hr_zone2_high) THEN old_power - power_step
                 ELSE IF Below(w.hr_zone2_low - 5) THEN old_power + power_step * 2
                 ELSE IF Below(w.hr_zone2_low) THEN old_power + power_step
                 ELSE IF Above(hr_target(w) + 3) THEN old_power - power_step
                 ELSE IF Below(hr_target(w) - 3) THEN old_power + power_step
                 ELSE old_power
             w1 == [w EXCEPT !.hr_adjustment_age = 0]
         IN  IF new_power # old_power
             THEN Result([w1 EXCEPT !.current_adaptive_power = new_power,
                                    !.last_target_power = new_power],
                         <<>>, new_power)
             ELSE Result(w1, <<>>, NoPower)

\* get_hr_adjusted_power with far steps for a mean more than 5 bpm outside
\* the zone and a dead band of dead bpm around the target inside it.
adjusted_with(w, far, dead) ==
    IF ~w.hr_target_mode \/ Len(w.hr_samples) < min_hr_samples
    THEN Result(w, <<>>, NoPower)
    ELSE IF w.hr_adjustment_age < hr_adjustment_interval
    THEN Result(w, <<>>, NoPower)
    ELSE LET n == Len(w.hr_samples)
             total == SeqSum(w.hr_samples)
             Above(k) == total > k * n
             Below(k) == total < k * n
             old_power == w.current_adaptive_power
             stepped ==
                 IF Above(w.hr_zone2_high + 5) THEN old_power - power_step * far
                 ELSE IF Above(w.hr_zone2_high) THEN old_power - power_step
                 ELSE IF Below(w.hr_zone2_low - 5) THEN old_power + power_step * far
                 ELSE IF Below(w.hr_zone2_low) THEN old_power + power_step
                 ELSE IF Above(hr_target(w) + dead) THEN old_power - power_step
                 ELSE IF Below(hr_target(w) - dead) THEN old_power + power_step
                 ELSE old_power
             new_power == Max(zone2_low(w), Min(zone2_high(w), stepped))
             w1 == [w EXCEPT !.hr_adjustment_age = 0]
         IN  IF new_power # old_power
             THEN Result([w1 EXCEPT !.current_adaptive_power = new_power,
                                    !.last_target_power = new_power],
                         <<>>, new_power)
             ELSE Result(w1, <<>>, NoPower)

\* A faulty get_hr_adjusted_power: one step however far outside the zone.
get_hr_adjusted_power_one_step(w) == adjusted_with(w, 1, 3)

\* A faulty get_hr_adjusted_power: no dead band around the target.
get_hr_adjusted_power_no_dead_band(w) == adjusted_with(w, 2, 0)

\* A faulty get_hr_adjusted_power: the interval since the last adjustment is
\* not looked at.
get_hr_adjusted_power_any_time(w) ==
    IF ~w.hr_target_mode \/ Len(w.hr_samples) < min_hr_samples
    THEN Result(w, <<>>, NoPower)
    ELSE LET n == Len(w.hr_samples)
             total == SeqSum(w.hr_samples)
             Above(k) == total > k * n
             Below(k) == total < k * n
             old_power == w.current_adaptive_power
             stepped ==
                 IF Above(w.hr_zone2_high + 5) THEN old_power - power_step * 2
                 ELSE IF Above(w.hr_zone2_high) THEN old_power - power_step
                 ELSE IF Below(w.hr_zone2_low - 5) THEN old_power + power_step * 2
                 ELSE IF Below(w.hr_zone2_low) THEN old_power + power_step
                 ELSE IF Above(hr_target(w) + 3) THEN old_power - power_step
                 ELSE IF Below(hr_target(w) - 3) THEN old_power + power_step
                 ELSE old_power
             new_power == Max(zone2_low(w), Min(zone2_high(w), stepped))
             w1 == [w EXCEPT !.hr_adjustment_age = 0]
         IN  IF new_power # old_power
             THEN Result([w1 EXCEPT !.current_adaptive_power = new_power,
                                    !.last_target_power = new_power],
                         <<>>, new_power)
             ELSE Result(w1, <<>>, NoPower)

get_hr_adjusted_power(w) ==
    IF ~w.hr_target_mode \/ Len(w.hr_samples) < min_hr_samples
    THEN Result(w, <<>>, NoPower)
    ELSE IF w.hr_adjustment_age < hr_adjustment_interval
    THEN Result(w, <<>>, NoPower)
    ELSE LET n == Len(w.hr_samples)
             total == SeqSum(w.hr_samples)
             Above(k) == total > k * n      \* avg_hr > k
             Below(k) == total < k * n      \* avg_hr < k
             old_power == w.current_adaptive_power
             stepped ==
                 IF Above(w.hr_zone2_high + 5) THEN old_power - power_step * 2
                 ELSE IF Above(w.hr_zone2_high) THEN old_power - power_step
                 ELSE IF Below(w.hr_zone2_low - 5) THEN old_power + power_step * 2
                 ELSE IF Below(w.hr_zone2_low) THEN old_power + power_step
                 ELSE IF Above(hr_target(w) + 3) THEN old_power - power_step
                 ELSE IF Below(hr_target(w) - 3) THEN old_power + power_step
                 ELSE old_power
             new_power == Max(zone2_low(w), Min(zone2_high(w), stepped))
             w1 == [w EXCEPT !.hr_adjustment_age = 0]
         IN  IF new_power # old_power
             THEN Result([w1 EXCEPT !.current_adaptive_power = new_power,
                                    !.last_target_power = new_power],
                         <<>>, new_power)
             ELSE Result(w1, <<>>, NoPower)

notify_power_always(w, segment, segment_elapsed, ev) ==
    LET target_power == IF w.hr_target_mode
                        THEN w.current_adaptive_power
                        ELSE get_power_at_time(segment, segment_elapsed)
    IN  Result([w EXCEPT !.last_target_power = target_power],
               Append(ev, PowerChange(w.current_segment_index, target_power)),
               target_power)

\* The tail of update (lines 491-505): the target for the segment, and the
\* power-change callback when it differs from _last_target_power.
notify_power(w, segment, segment_elapsed, ev) ==
    LET target_power == IF w.hr_target_mode
                        THEN w.current_adaptive_power
                        ELSE get_power_at_time(segment, segment_elapsed)
    IN  IF target_power # w.last_target_power
        THEN Result([w EXCEPT !.last_target_power = target_power],
                    Append(ev, PowerChange(w.current_segment_index, target_power)),
                    target_power)
        ELSE Result(w, ev, NoPower)

\* The transition into the next segment (lines 475-489).
enter_segment(w) ==
    LET segment == w.segments[w.current_segment_index + 1]
    IN  IF w.current_workout_type = "zone2" /\ segment.phase = "main"
        THEN [w EXCEPT !.hr_target_mode = TRUE,
                       !.current_adaptive_power = zone2_power(w),
                       !.hr_samples = <<>>,
                       !.hr_adjustment_age = 0]
        ELSE [w EXCEPT !.hr_target_mode = FALSE]

\* A faulty update: the segment clock restarts at the scheduled boundary, so
\* the time a late tick overshot by counts towards the segment it enters.
update_from_boundary(w) ==
    IF ~w.is_running \/ w.current_segment_index < 0
    THEN Result(w, <<>>, NoPower)
    ELSE IF w.current_segment_index >= Len(w.segments)
    THEN Result([w EXCEPT !.is_running = FALSE],
                << WorkoutComplete(w.current_segment_index),
                   PhaseChange(w.current_segment_index, "completed", "Complete") >>,
                NoPower)
    ELSE LET segment == w.segments[w.current_segment_index + 1]
         IN  IF w.segment_elapsed >= segment.duration_seconds
             THEN LET w1 == [w EXCEPT !.current_segment_index = @ + 1,
                                      !.segment_elapsed = @ - segment.duration_seconds]
                  IN  IF w1.current_segment_index >= Len(w1.segments)
                      THEN Result([w1 EXCEPT !.is_running = FALSE,
                                             !.hr_target_mode = FALSE],
                                  << WorkoutComplete(w1.current_segment_index),
                                     PhaseChange(w1.current_segment_index, "completed", "Complete") >>,
                                  NoPower)
                      ELSE LET w2 == enter_segment(w1)
                               entered == w2.segments[w2.current_segment_index + 1]
                           IN  notify_power(w2, entered, w1.segment_elapsed,
                                   << PhaseChange(w2.current_segment_index,
                                                  entered.phase, entered.name) >>)
             ELSE notify_power(w, segment, w.segment_elapsed, <<>>)

\* A faulty update: a run that is over is completed again by the next tick.
update_completes_again(w) ==
    IF w.current_segment_index < 0
    THEN Result(w, <<>>, NoPower)
    ELSE IF w.current_segment_index >= Len(w.segments)
    THEN Result([w EXCEPT !.is_running = FALSE],
                << WorkoutComplete(w.current_segment_index),
                   PhaseChange(w.current_segment_index, "completed", "Complete") >>,
                NoPower)
    ELSE IF ~w.is_running
    THEN Result(w, <<>>, NoPower)
    ELSE LET segment == w.segments[w.current_segment_index + 1]
         IN  IF w.segment_elapsed >= segment.duration_seconds
             THEN LET w1 == [w EXCEPT !.current_segment_index = @ + 1,
                                      !.segment_elapsed = 0]
                  IN  IF w1.current_segment_index >= Len(w1.segments)
                      THEN Result([w1 EXCEPT !.is_running = FALSE,
                                             !.hr_target_mode = FALSE],
                                  << WorkoutComplete(w1.current_segment_index),
                                     PhaseChange(w1.current_segment_index, "completed", "Complete") >>,
                                  NoPower)
                      ELSE LET w2 == enter_segment(w1)
                               entered == w2.segments[w2.current_segment_index + 1]
                           IN  notify_power(w2, entered, 0,
                                   << PhaseChange(w2.current_segment_index,
                                                  entered.phase, entered.name) >>)
             ELSE notify_power(w, segment, w.segment_elapsed, <<>>)

\* A faulty update: the index is not compared with the length of the list
\* before the segment is read.
update_reads_unchecked(w) ==
    IF ~w.is_running \/ w.current_segment_index < 0 THEN {}
    ELSE {w.current_segment_index}

\* The indices at which update reads self.segments (lines 457 and 476).
update_reads(w) ==
    IF ~w.is_running \/ w.current_segment_index < 0 THEN {}
    ELSE IF w.current_segment_index >= Len(w.segments) THEN {}
    ELSE LET segment == w.segments[w.current_segment_index + 1]
         IN  IF w.segment_elapsed >= segment.duration_seconds
                /\ w.current_segment_index + 1 < Len(w.segments)
             THEN {w.current_segment_index, w.current_segment_index + 1}
             ELSE {w.current_segment_index}

update(w) ==
    IF ~w.is_running \/ w.current_segment_index < 0
    THEN Result(w, <<>>, NoPower)
    ELSE IF w.current_segment_index >= Len(w.segments)
    THEN Result([w EXCEPT !.is_running = FALSE],
                << WorkoutComplete(w.current_segment_index),
                   PhaseChange(w.current_segment_index, "completed", "Complete") >>,
                NoPower)
    ELSE LET segment == w.segments[w.current_segment_index + 1]
         IN  IF w.segment_elapsed >= segment.duration_seconds
             THEN LET w1 == [w EXCEPT !.current_segment_index = @ + 1,
                                      !.segment_elapsed = 0]
                  IN  IF w1.current_segment_index >= Len(w1.segments)
                      THEN Result([w1 EXCEPT !.is_running = FALSE,
                                             !.hr_target_mode = FALSE],
                                  << WorkoutComplete(w1.current_segment_index),
                                     PhaseChange(w1.current_segment_index, "completed", "Complete") >>,
                                  NoPower)
                      ELSE LET w2 == enter_segment(w1)
                               entered == w2.segments[w2.current_segment_index + 1]
                           IN  notify_power(w2, entered, 0,
                                   << PhaseChange(w2.current_segment_index,
                                                  entered.phase, entered.name) >>)
             ELSE notify_power(w, segment, w.segment_elapsed, <<>>)

\* The objects of the functions examined on their own.
pure == <<ramp, enc, pace, sev, tally>>

vars == <<ble, ble_ret, wm, out, obs, builder, app, fit, rx, za, pure>>
not_link == <<wm, out, obs, builder, app, fit, rx, za, pure>>      \* all but the BLEManager
not_ctl == <<ble, ble_ret, builder, app, fit, rx, za, pure>>       \* all but the WorkoutManager

(***************************************************************************)
(* DeviceLink actions                                                      *)
(***************************************************************************)
LinkConnectToDevice ==
    /\ UNCHANGED not_link
    /\ \E a \in Addrs, ok \in BOOLEAN, o \in ConnectOutcomes :
           /\ ble.clients < MaxClients
           /\ LET r == connect_to_device(ble, a, ok, o)
              IN  ble' = r.b /\ ble_ret' = <<"connect", r.ret>>

LinkScan ==
    /\ UNCHANGED not_link
    /\ \E f \in Addrs \cup {None}, o \in ConnectOutcomes :
           /\ ble.clients < MaxClients
           /\ LET r == do_scan(ble, f, o)
              IN  ble' = r.b /\ ble_ret' = <<"scan", r.ret>>

LinkDisconnectTrainer ==
    /\ UNCHANGED not_link
    /\ \E ok \in BOOLEAN :
           ble' = disconnect_trainer(ble, ok) /\ ble_ret' = <<"disconnect_trainer", TRUE>>

LinkDisconnect ==
    /\ UNCHANGED not_link
    /\ \E ok \in BOOLEAN :
           ble' = disconnect(ble, ok) /\ ble_ret' = <<"disconnect", TRUE>>

LinkSetTargetPower ==
    /\ UNCHANGED not_link
    /\ \E w \in Watts, ok_rc \in BOOLEAN, ok_w \in BOOLEAN :
           LET r == set_target_power(ble, w, ok_rc, ok_w)
           IN  ble' = r.b /\ ble_ret' = <<"set_target_power", r.ret, w>>

LinkStopErg ==
    /\ UNCHANGED not_link
    /\ \E ok \in BOOLEAN :
           LET r == stop_erg_mode(ble, ok)
           IN  ble' = r.b /\ ble_ret' = <<"stop_erg_mode", r.ret>>


(***************************************************************************)
(* TrainingController actions                                              *)
(***************************************************************************)
PowerEvents(ev) == {k \in DOMAIN ev : ev[k].kind = "power"}
PhaseEvents(ev) == {k \in DOMAIN ev : ev[k].kind = "phase"}
LastOf(S) == CHOOSE k \in S : \A j \in S : j <= k

\* The value carried by the latest power-change callback, given the latest
\* before the operation o and the callbacks o made.
LatestEmitted(before, o) ==
    IF PowerEvents(o.ev) # {} THEN o.ev[LastOf(PowerEvents(o.ev))].power ELSE before

\* The latest target power handed to the caller: by a power-change callback
\* or as the value get_hr_adjusted_power returned.
LatestHanded(before, o) ==
    IF PowerEvents(o.ev) # {} THEN o.ev[LastOf(PowerEvents(o.ev))].power
    ELSE IF o.op = "get_hr_adjusted_power" /\ o.ret # NoPower THEN o.ret
    ELSE before

\* The segment the latest phase-change callback was about.
LatestPhase(before, o) ==
    IF PhaseEvents(o.ev) # {} THEN o.ev[LastOf(PhaseEvents(o.ev))].seg ELSE before

\* obs holds the three observations as they were before the operation in out.
\* Operations that make no callback and return nothing are recorded as "quiet".
Quiet == [w |-> wm, ev |-> <<>>, ret |-> NoPower]

Observe(op, r) ==
    /\ out' = [op |-> op, ev |-> r.ev, ret |-> r.ret]
    /\ obs' = [ emitted_before |-> LatestEmitted(obs.emitted_before, out),
                handed_before |-> LatestHanded(obs.handed_before, out),
                phase_before |-> LatestPhase(obs.phase_before, out) ]

NumRuns(s) ==
    IF s = <<>> THEN 0
    ELSE 1 + Cardinality({i \in 1..(Len(s) - 1) : s[i] # s[i + 1]})

CtlStart ==
    /\ UNCHANGED not_ctl
    /\ LET r == start(wm) IN wm' = r.w /\ Observe("start", r)

CtlStop ==
    /\ UNCHANGED not_ctl
    /\ wm' = stop(wm) /\ Observe("quiet", Quiet)

CtlUpdate ==
    /\ UNCHANGED not_ctl
    /\ LET r == update(wm) IN wm' = r.w /\ Observe("update", r)

CtlAddHrSample ==
    /\ UNCHANGED not_ctl
    /\ \E hr \in HRVals :
           /\ wm.hr_target_mode
           /\ NumRuns(Append(wm.hr_samples, hr)) <= MaxHrRuns
           /\ wm' = add_hr_sample(wm, hr)
           /\ Observe("quiet", Quiet)

MaxWinRuns == 2      \* runs of equal samples in the window, where it is filled

\* add_hr_sample whether adaptive mode is armed or not; out.ret is the sample
\* pop(0) took out of the window, if it took one.
CtlRecordHr ==
    /\ UNCHANGED not_ctl
    /\ \E hr \in HRVals :
           /\ NumRuns(Append(wm.hr_samples, hr)) <= MaxWinRuns
           /\ wm' = add_hr_sample(wm, hr)
           /\ Observe("add_hr_sample",
                      Result(wm, <<>>,
                             IF wm.hr_target_mode /\ Len(wm.hr_samples) >= max_hr_samples
                             THEN Head(wm.hr_samples) ELSE NoPower))

\* Heart rates on both sides of each threshold of the default zone.
TierHRs == {110, 119, 120, 124, 126, 130, 133, 136, 140, 143, 145, 148, 150}

\* add_hr_sample with a steady heart rate: the window mean is that rate.
TierAddHrSample ==
    /\ UNCHANGED not_ctl
    /\ \E hr \in TierHRs :
           /\ wm.hr_target_mode
           /\ NumRuns(Append(wm.hr_samples, hr)) <= 1
           /\ wm' = add_hr_sample(wm, hr)
           /\ Observe("quiet", Quiet)

\* add_hr_sample with the heart rate at the midpoint of the zone.
CtlAddMidSample ==
    /\ UNCHANGED not_ctl
    /\ wm.hr_target_mode
    /\ NumRuns(Append(wm.hr_samples, hr_target(wm))) <= MaxHrRuns
    /\ wm' = add_hr_sample(wm, hr_target(wm))
    /\ Observe("quiet", Quiet)

CtlAdjust ==
    /\ UNCHANGED not_ctl
    /\ LET r == get_hr_adjusted_power(wm)
       IN  wm' = r.w /\ Observe("get_hr_adjusted_power", r)

CtlSetWorkoutType ==
    /\ UNCHANGED not_ctl
    /\ \E t \in WORKOUT_LIBRARY :
           wm' = set_workout_type(wm, t) /\ Observe("quiet", Quiet)

CtlSetFtp ==
    /\ UNCHANGED not_ctl
    /\ \E f \in FTPs :
           wm' = set_ftp(wm, f) /\ Observe("quiet", Quiet)

\* set_ftp and set_hr_zones as calls an observer can tell apart.
CfgSetFtp ==
    /\ UNCHANGED not_ctl
    /\ \E f \in FTPs :
           wm' = set_ftp(wm, f) /\ Observe("set_ftp", Quiet)

CfgSetHrZones ==
    /\ UNCHANGED not_ctl
    /\ \E z \in HrZones :
           wm' = set_hr_zones(wm, z[1], z[2]) /\ Observe("set_hr_zones", Quiet)

CoarseSetFtp ==
    /\ UNCHANGED not_ctl
    /\ \E f \in CoarseFTPs :
           wm' = set_ftp(wm, f) /\ Observe("quiet", Quiet)

CtlSetHrZones ==
    /\ UNCHANGED not_ctl
    /\ \E z \in HrZones :
           wm' = set_hr_zones(wm, z[1], z[2]) /\ Observe("quiet", Quiet)

\* time.time() moves on by d seconds.
tick_clock(w, d) ==
    [w EXCEPT !.segment_elapsed = Min(@ + d, MaxElapsed),
              !.hr_adjustment_age = Min(@ + d, hr_adjustment_interval)]

\* The update loop ticks about once a second: the clock is followed while a
\* segment is running and not yet over, so a tick is late by one step at most.
clock_runs(w) ==
    /\ w.is_running
    /\ w.current_segment_index >= 0
    /\ w.current_segment_index < Len(w.segments)
    /\ w.segment_elapsed < w.segments[w.current_segment_index + 1].duration_seconds

CtlAdvance ==
    /\ UNCHANGED not_ctl
    /\ \E d \in TimeSteps :
           /\ clock_runs(wm)
           /\ wm' = tick_clock(wm, d)
           /\ UNCHANGED <<out, obs>>

CoarseAdvance ==
    /\ UNCHANGED not_ctl
    /\ \E d \in CoarseTimeSteps :
           /\ clock_runs(wm)
           /\ wm' = tick_clock(wm, d)
           /\ UNCHANGED <<out, obs>>

(***************************************************************************)
(* The controller with its listeners counting.  Since the last start:      *)
(*   complete    on_workout_complete callbacks made (counted up to 2);     *)
(*   completed   on_phase_change(COMPLETED, ...) callbacks made (up to 2); *)
(*   over        the run has completed or stop was called;                 *)
(*   late        a tick made while over returned a power or made a         *)
(*               phase-change or power-change callback.                    *)
(***************************************************************************)
TallyInit == [complete |-> 0, completed |-> 0, over |-> FALSE, late |-> FALSE]

CountOf(ev, P(_)) == Cardinality({k \in DOMAIN ev : P(ev[k])})
IsComplete(e) == e.kind = "complete"
IsCompletedPhase(e) == e.kind = "phase" /\ e.phase = "completed"
IsPhaseOrPower(e) == e.kind \in {"phase", "power"}

not_tallied == <<ble, ble_ret, builder, app, fit, rx, za, ramp, enc, pace, sev>>

TallyStart ==
    /\ UNCHANGED not_tallied
    /\ LET r == start(wm) IN wm' = r.w /\ Observe("start", r)
    /\ tally' = TallyInit

TallyStop ==
    /\ UNCHANGED not_tallied
    /\ wm' = stop(wm) /\ Observe("stop", Quiet)
    /\ tally' = [tally EXCEPT !.over = TRUE]

TallyUpdate ==
    /\ UNCHANGED not_tallied
    /\ LET r == update(wm)
       IN  /\ wm' = r.w /\ Observe("update", r)
           /\ tally' = [ complete |-> Min(2, tally.complete + CountOf(r.ev, IsComplete)),
                         completed |-> Min(2, tally.completed + CountOf(r.ev, IsCompletedPhase)),
                         over |-> tally.over \/ CountOf(r.ev, IsComplete) > 0
                                             \/ CountOf(r.ev, IsCompletedPhase) > 0,
                         late |-> tally.late \/ (/\ tally.over
                                                 /\ \/ r.ret # NoPower
                                                    \/ CountOf(r.ev, IsPhaseOrPower) > 0) ]

TallySetWorkoutType ==
    /\ UNCHANGED not_tallied
    /\ UNCHANGED tally
    /\ \E t \in WORKOUT_LIBRARY :
           wm' = set_workout_type(wm, t) /\ Observe("quiet", Quiet)

TallySetFtp ==
    /\ UNCHANGED not_tallied
    /\ UNCHANGED tally
    /\ \E f \in FTPs :
           wm' = set_ftp(wm, f) /\ Observe("quiet", Quiet)

TallyAdvance ==
    /\ UNCHANGED not_tallied
    /\ UNCHANGED tally
    /\ \E d \in TimeSteps :
           /\ clock_runs(wm)
           /\ wm' = tick_clock(wm, d)
           /\ UNCHANGED <<out, obs>>



(***************************************************************************)
(* A configuration change running on a handler thread while the update     *)
(* loop ticks on its own thread.  No lock guards the WorkoutManager: a     *)
(* tick can run between any two statements of set_workout_type / set_ftp.  *)
(* builder follows the call: "assign" once _current_workout_type (and, for *)
(* set_ftp, config) is written and self.segments is not yet; "append"      *)
(* while the vo2max list is grown by append(), k segments appended so far. *)
(***************************************************************************)
BuilderIdle == [pc |-> "idle", k |-> 0]

\* set_workout_type up to and including line 149.
TearSetWorkoutType ==
    /\ UNCHANGED <<ble, ble_ret, app, fit, rx, za, pure>>
    /\ builder.pc = "idle"
    /\ \E t \in WORKOUT_LIBRARY :
           /\ wm' = [wm EXCEPT !.current_workout_type = t]
           /\ builder' = [pc |-> "assign", k |-> 0]
           /\ Observe("quiet", Quiet)

\* set_ftp up to and including line 149 of the _build_workout it calls.
TearSetFtp ==
    /\ UNCHANGED <<ble, ble_ret, app, fit, rx, za, pure>>
    /\ builder.pc = "idle"
    /\ \E f \in CoarseFTPs :
           /\ wm' = [wm EXCEPT !.ftp = f]
           /\ builder' = [pc |-> "assign", k |-> 0]
           /\ Observe("quiet", Quiet)

\* The assignment to self.segments (lines 154, 183, 224, 267).
TearAssign ==
    /\ UNCHANGED <<ble, ble_ret, app, fit, rx, za, pure>>
    /\ builder.pc = "assign"
    /\ IF wm.current_workout_type = "vo2max"
       THEN /\ wm' = [wm EXCEPT !.segments = Vo2maxPrefix(wm, 0)]
            /\ builder' = [pc |-> "append", k |-> 0]
       ELSE /\ wm' = [wm EXCEPT !.segments = build_segments(wm, wm.current_workout_type)]
            /\ builder' = BuilderIdle
    /\ Observe("quiet", Quiet)

\* One self.segments.append (lines 195, 203, 211).
TearAppend ==
    /\ UNCHANGED <<ble, ble_ret, app, fit, rx, za, pure>>
    /\ builder.pc = "append"
    /\ wm' = [wm EXCEPT !.segments = Vo2maxPrefix(wm, builder.k + 1)]
    /\ builder' = IF builder.k + 1 = Vo2maxAppends THEN BuilderIdle
                  ELSE [pc |-> "append", k |-> builder.k + 1]
    /\ Observe("quiet", Quiet)


(***************************************************************************)
(* app.py: the socket handlers and the update-loop thread.                 *)
(* Every handler runs on a thread of its own, so the model follows each    *)
(* one statement group at a time; the points where a thread can be         *)
(* overtaken are the global workout_active, the WorkoutManager, the        *)
(* FitExporter and the run_async calls, which block for up to 30 seconds.  *)
(*   app.starter  handle_start_workout: "none" or "write" (about to send   *)
(*                the initial power);                                      *)
(*   app.loop     workout_update_loop: "none" (no thread), "test",         *)
(*                "update", "write", "check", then handle_workout_complete *)
(*                as "c_flag", "c_erg", "c_export", and "done"/"raised";   *)
(*   app.stops    one handle_stop_workout call per request: "none",        *)
(*                "s_stop", "s_erg", "s_export", "done", "raised";         *)
(*   app.threads  the threads handle_start_workout has started, where      *)
(*                more than one is followed: "none" (not started), "test"  *)
(*                (at the while condition), "update" (in the body, before  *)
(*                update()), "sleep" (in time.sleep(1.0)), "check" (past   *)
(*                the loop), "done" (returned or raised).                  *)
(* fit.exports counts the export() calls made on the current recording.    *)
(***************************************************************************)
MaxStopRequests == 2
MaxRecords == 1
MaxAppClients == 1      \* connections made while the application model runs
StopRequests == 1..MaxStopRequests
MaxLoopThreads == 2     \* update threads alive at the same time
LoopThreads == 1..MaxLoopThreads

\* run_async: the coroutine returns normally, fails inside the BLE write (the
\* manager catches it), or future.result(timeout=30) raises TimeoutError.
AsyncOutcomes == {"ok", "write_raises", "timeout"}

AppInit ==
    [ workout_active |-> FALSE, starter |-> "none", loop |-> "none",
      new_power |-> NoPower, stops |-> [i \in StopRequests |-> "none"],
      threads |-> [i \in LoopThreads |-> "none"] ]

(***************************************************************************)
(* FitExporter.  A record is kept as its timestamp (whole seconds, from    *)
(* time.time(), so never decreasing from one record to the next).          *)
(*   records, start_time, end_time, backup_file (is a path set?),          *)
(*   last_backup_count   the fields of the object;                         *)
(*   exports    files written by export() since the records were cleared;  *)
(*   exported   how many of the records held the last of these files has;  *)
(*   op, raised the last method called and whether it raised;              *)
(*   clear_pc   where a clear() running on a handler thread stands:        *)
(*              "idle", or the statement it executes next.                 *)
(***************************************************************************)
NoTime == 0                 \* _start_time / _end_time being None
backup_interval == 30       \* records between two automatic backups
MaxTimestamp == 2
MaxLog == 3
MaxExports == 2
Timestamps == 1..MaxTimestamp

FitExporterInit ==
    [ records |-> <<>>, start_time |-> NoTime, end_time |-> NoTime,
      backup_file |-> FALSE, last_backup_count |-> 0,
      exports |-> 0, exported |-> 0,
      op |-> "init", raised |-> FALSE, clear_pc |-> "idle" ]

record_count(f) == Len(f.records)

save_backup(f) ==
    IF ~f.backup_file \/ f.records = <<>> THEN f
    ELSE [f EXCEPT !.last_backup_count = Len(f.records)]

cleanup_backup(f) == [f EXCEPT !.backup_file = FALSE, !.last_backup_count = 0]

add_record(f, timestamp) ==
    LET f1 == IF f.start_time = NoTime
              THEN [f EXCEPT !.start_time = timestamp, !.backup_file = TRUE]
              ELSE f
        f2 == [f1 EXCEPT !.end_time = timestamp,
                         !.records = Append(@, timestamp),
                         !.op = "add_record", !.raised = FALSE]
    IN  IF Len(f2.records) - f2.last_backup_count >= backup_interval
        THEN save_backup(f2) ELSE f2

\* clear(), statement by statement.
clear_records(f) == [f EXCEPT !.records = <<>>, !.exports = 0, !.exported = 0]
clear_start_time(f) == [f EXCEPT !.start_time = NoTime]
clear_end_time(f) == [f EXCEPT !.end_time = NoTime]

clear(f) ==
    [cleanup_backup(clear_end_time(clear_start_time(clear_records(f))))
        EXCEPT !.op = "clear", !.raised = FALSE]

\* A faulty export: an empty recorder is written out as an empty file.
export_writes_empty(f) ==
    [cleanup_backup(f) EXCEPT !.exports = @ + 1, !.exported = Len(f.records),
                              !.op = "export", !.raised = FALSE]

\* export: raises ValueError on an empty recorder, else writes the file.
export(f) ==
    IF f.records = <<>>
    THEN [f EXCEPT !.op = "export", !.raised = TRUE]
    ELSE [cleanup_backup(f) EXCEPT !.exports = @ + 1, !.exported = Len(f.records),
                                   !.op = "export", !.raised = FALSE]

\* The recorder's own fields.
RecorderState(f) ==
    << f.records, f.start_time, f.end_time, f.backup_file, f.last_backup_count >>

\* The timestamps that can follow the records held.
NextTimestamps(f) ==
    {t \in Timestamps : f.records = <<>> \/ t >= f.records[Len(f.records)]}

FitAddRecord ==
    /\ UNCHANGED <<ble, ble_ret, wm, out, obs, builder, app, rx, za, pure>>
    /\ Len(fit.records) < MaxLog
    /\ \E t \in NextTimestamps(fit) : fit' = add_record(fit, t)

MaxSnapLog == 35        \* records held where the automatic backup is followed

\* add_record on a log long enough for the automatic backup.
SnapAddRecord ==
    /\ UNCHANGED <<ble, ble_ret, wm, out, obs, builder, app, rx, za, pure>>
    /\ Len(fit.records) < MaxSnapLog
    /\ \E t \in NextTimestamps(fit) : fit' = add_record(fit, t)

FitExport ==
    /\ UNCHANGED <<ble, ble_ret, wm, out, obs, builder, app, rx, za, pure>>
    /\ fit.exports < MaxExports
    /\ fit' = export(fit)

\* clear() on a handler thread: self._records.clear()
FitClearRecords ==
    /\ UNCHANGED <<ble, ble_ret, wm, out, obs, builder, app, rx, za, pure>>
    /\ fit.clear_pc = "idle"
    /\ fit' = [clear_records(fit) EXCEPT !.clear_pc = "start_time", !.op = "clear",
                                          !.raised = FALSE]

\* clear(): self._start_time = None
FitClearStartTime ==
    /\ UNCHANGED <<ble, ble_ret, wm, out, obs, builder, app, rx, za, pure>>
    /\ fit.clear_pc = "start_time"
    /\ fit' = [clear_start_time(fit) EXCEPT !.clear_pc = "end_time", !.op = "clear",
                                             !.raised = FALSE]

\* clear(): self._end_time = None
FitClearEndTime ==
    /\ UNCHANGED <<ble, ble_ret, wm, out, obs, builder, app, rx, za, pure>>
    /\ fit.clear_pc = "end_time"
    /\ fit' = [clear_end_time(fit) EXCEPT !.clear_pc = "backup", !.op = "clear",
                                           !.raised = FALSE]

\* clear(): self.cleanup_backup(), and clear returns
FitClearBackup ==
    /\ UNCHANGED <<ble, ble_ret, wm, out, obs, builder, app, rx, za, pure>>
    /\ fit.clear_pc = "backup"
    /\ fit' = [cleanup_backup(fit) EXCEPT !.clear_pc = "idle", !.op = "clear",
                                          !.raised = FALSE]

\* A run_async call can only time out while a write is awaited on the link.
CanTimeOut(o) == o = "timeout" => is_trainer_connected(ble)

\* handle_connect_trainer.
AppConnectTrainer ==
    /\ UNCHANGED <<wm, out, obs, builder, app, fit, rx, za, pure>>
    /\ \E a \in Addrs, ok \in BOOLEAN, o \in ConnectOutcomes :
           /\ ble.clients < MaxAppClients
           /\ LET r == connect_to_device(ble, a, ok, o)
              IN  ble' = r.b /\ ble_ret' = <<"connect", r.ret>>

\* on_bike_data / on_hr_data while a workout is active.
AppSample ==
    /\ UNCHANGED <<ble, ble_ret, wm, out, obs, builder, app, rx, za, pure>>
    /\ app.workout_active
    /\ record_count(fit) < MaxRecords
    /\ fit' = add_record(fit, record_count(fit) + 1)

\* handle_start_workout up to the run_async call.
AppStart ==
    /\ UNCHANGED <<ble, ble_ret, builder, rx, za, pure>>
    /\ app.starter = "none"
    /\ app.loop \in {"none", "done", "raised"}
    /\ app' = [app EXCEPT !.workout_active = TRUE, !.starter = "write"]
    /\ fit' = clear(fit)
    /\ LET r == start(wm) IN wm' = r.w /\ Observe("start", r)

\* handle_start_workout: run_async(set_target_power(initial_power)), then the
\* update thread is started unless run_async raised.
AppStartWrite ==
    /\ UNCHANGED <<wm, out, obs, builder, fit, rx, za, pure>>
    /\ app.starter = "write"
    /\ \E o \in AsyncOutcomes, ok_rc \in BOOLEAN :
           /\ CanTimeOut(o)
           /\ IF o = "timeout"
              THEN /\ UNCHANGED <<ble, ble_ret>>
                   /\ app' = [app EXCEPT !.starter = "none"]
              ELSE /\ LET r == set_target_power(ble, wm.last_target_power, ok_rc, o = "ok")
                      IN  ble' = r.b /\ ble_ret' = <<"set_target_power", r.ret>>
                   /\ app' = [app EXCEPT !.starter = "none", !.loop = "test"]

\* workout_update_loop: the while condition.
LoopTest ==
    /\ UNCHANGED <<ble, ble_ret, wm, out, obs, builder, fit, rx, za, pure>>
    /\ app.loop = "test"
    /\ app' = [app EXCEPT !.loop =
                  IF app.workout_active /\ wm.is_running THEN "update" ELSE "check"]

\* workout_update_loop: new_power = workout_manager.update().
LoopUpdate ==
    /\ UNCHANGED <<ble, ble_ret, builder, fit, rx, za, pure>>
    /\ app.loop = "update"
    /\ LET r == update(wm)
       IN  /\ wm' = r.w
           /\ Observe("update", r)
           /\ app' = [app EXCEPT !.new_power = r.ret,
                                 !.loop = IF r.ret # NoPower THEN "write" ELSE "test"]

\* workout_update_loop: run_async(set_target_power(new_power)).
LoopWrite ==
    /\ UNCHANGED <<wm, out, obs, builder, fit, rx, za, pure>>
    /\ app.loop = "write"
    /\ \E o \in AsyncOutcomes, ok_rc \in BOOLEAN :
           /\ CanTimeOut(o)
           /\ IF o = "timeout"
              THEN /\ UNCHANGED <<ble, ble_ret>>
                   /\ app' = [app EXCEPT !.loop = "raised", !.new_power = NoPower]
              ELSE /\ LET r == set_target_power(ble, app.new_power, ok_rc, o = "ok")
                      IN  ble' = r.b /\ ble_ret' = <<"set_target_power", r.ret>>
                   /\ app' = [app EXCEPT !.loop = "test", !.new_power = NoPower]

\* workout_update_loop after the while: did the workout complete by itself?
LoopCheck ==
    /\ UNCHANGED <<ble, ble_ret, wm, out, obs, builder, fit, rx, za, pure>>
    /\ app.loop = "check"
    /\ app' = [app EXCEPT !.loop =
                  IF ~wm.is_running /\ app.workout_active THEN "c_flag" ELSE "done"]

\* handle_workout_complete: workout_active = False.
CompleteFlag ==
    /\ UNCHANGED <<ble, ble_ret, wm, out, obs, builder, fit, rx, za, pure>>
    /\ app.loop = "c_flag"
    /\ app' = [app EXCEPT !.workout_active = FALSE, !.loop = "c_erg"]

\* handle_workout_complete: run_async(stop_erg_mode()).
CompleteErg ==
    /\ UNCHANGED <<wm, out, obs, builder, fit, rx, za, pure>>
    /\ app.loop = "c_erg"
    /\ \E o \in AsyncOutcomes :
           /\ CanTimeOut(o)
           /\ IF o = "timeout"
              THEN /\ UNCHANGED <<ble, ble_ret>>
                   /\ app' = [app EXCEPT !.loop = "raised"]
              ELSE /\ LET r == stop_erg_mode(ble, o = "ok")
                      IN  ble' = r.b /\ ble_ret' = <<"stop_erg_mode", r.ret>>
                   /\ app' = [app EXCEPT !.loop = "c_export"]

\* handle_workout_complete: export if anything was recorded.
CompleteExport ==
    /\ UNCHANGED <<ble, ble_ret, wm, out, obs, builder, rx, za, pure>>
    /\ app.loop = "c_export"
    /\ fit' = IF record_count(fit) > 0 THEN export(fit) ELSE fit
    /\ app' = [app EXCEPT !.loop = "done"]

\* handle_stop_workout: workout_active = False.
StopFlag ==
    /\ UNCHANGED <<ble, ble_ret, wm, out, obs, builder, fit, rx, za, pure>>
    /\ \E i \in StopRequests :
           /\ app.stops[i] = "none"
           /\ \A j \in 1..(i - 1) : app.stops[j] # "none"
           /\ app' = [app EXCEPT !.workout_active = FALSE, !.stops[i] = "s_stop"]

\* handle_stop_workout: workout_manager.stop().
StopManager ==
    /\ UNCHANGED <<ble, ble_ret, builder, fit, rx, za, pure>>
    /\ \E i \in StopRequests :
           /\ app.stops[i] = "s_stop"
           /\ wm' = stop(wm)
           /\ Observe("quiet", Quiet)
           /\ app' = [app EXCEPT !.stops[i] = "s_erg"]

\* handle_stop_workout: run_async(stop_erg_mode()).
StopErg ==
    /\ UNCHANGED <<wm, out, obs, builder, fit, rx, za, pure>>
    /\ \E i \in StopRequests, o \in AsyncOutcomes :
           /\ app.stops[i] = "s_erg"
           /\ CanTimeOut(o)
           /\ IF o = "timeout"
              THEN /\ UNCHANGED <<ble, ble_ret>>
                   /\ app' = [app EXCEPT !.stops[i] = "raised"]
              ELSE /\ LET r == stop_erg_mode(ble, o = "ok")
                      IN  ble' = r.b /\ ble_ret' = <<"stop_erg_mode", r.ret>>
                   /\ app' = [app EXCEPT !.stops[i] = "s_export"]

\* handle_stop_workout: export if anything was recorded.
StopExport ==
    /\ UNCHANGED <<ble, ble_ret, wm, out, obs, builder, rx, za, pure>>
    /\ \E i \in StopRequests :
           /\ app.stops[i] = "s_export"
           /\ fit' = IF record_count(fit) > 0 THEN export(fit) ELSE fit
           /\ app' = [app EXCEPT !.stops[i] = "done"]

\* Time passing while a segment runs.
AppAdvance ==
    /\ UNCHANGED <<ble, ble_ret, out, obs, builder, app, fit, rx, za, pure>>
    /\ \E d \in CoarseTimeSteps :
           /\ clock_runs(wm)
           /\ wm' = tick_clock(wm, d)

(***************************************************************************)
(* BLEManager: the notification handlers.  A frame is a sequence of bytes. *)
(* struct.unpack on a slice shorter than its format raises struct.error,   *)
(* and data[i] past the end raises IndexError; a handler that raises       *)
(* leaves the last samples as they were.  speed is kept as the raw value   *)
(* in hundredths of km/h (the code divides it by 100.0).                   *)
(***************************************************************************)
MaxFrameLen == 6
FrameBytes == {0, 68}           \* 68 = 0x44: cadence and power present
Frames == UNION { [1..n -> FrameBytes] : n \in 1..MaxFrameLen }

\* data[i] with i counted from 0.
ByteAt(data, i) == data[i + 1]
\* struct.unpack('<H', data[i:i+2])[0]
U16(data, i) == ByteAt(data, i) + 256 * ByteAt(data, i + 1)
\* struct.unpack('<h', data[i:i+2])[0]
S16(data, i) == IF U16(data, i) >= 32768 THEN U16(data, i) - 65536 ELSE U16(data, i)
\* flags & mask, for a mask of one bit.
HasBit(flags, mask) == (flags \div mask) % 2 = 1

BikeDataDefault == [power |-> 0, cadence |-> 0, speed_raw |-> 0]

\* No sample has been handed to on_bike_data yet.
NoSample == [power |-> NoPower, cadence |-> NoPower, speed_raw |-> NoPower]

\* delivered: the sample the last bike notification that called on_bike_data
\* handed to it.
DecoderInit ==
    [ op |-> "init", frame |-> <<>>, raised |-> FALSE,
      last_bike_data |-> BikeDataDefault, last_hr |-> 0, delivered |-> NoSample ]

\* Bike frames by their layout: the flags (low byte, high byte 0), then the
\* bytes of the fields.
FlagBytes == {0, 64, 68}        \* 64 = 0x40: power present and nothing else
FieldBytes == {0, 255}
BikeFrames ==
    { <<f>> : f \in FlagBytes } \cup
    UNION { { <<f, 0>> \o fields : f \in FlagBytes, fields \in [1..n -> FieldBytes] }
            : n \in 0..(MaxFrameLen - 2) }

\* A faulty _handle_indoor_bike_data: the power is not clamped at 0.
handle_indoor_bike_data_unclamped(data) ==
    IF Len(data) < 2
    THEN [raised |-> TRUE, sample |-> BikeDataDefault]
    ELSE LET flags == U16(data, 0)
             has_speed == Len(data) > 2 + 1
             speed_raw == IF has_speed THEN U16(data, 2) ELSE 0
             o1 == IF has_speed THEN 4 ELSE 2
             o2 == IF HasBit(flags, 2) THEN o1 + 2 ELSE o1
             has_cad == HasBit(flags, 4) /\ Len(data) > o2 + 1
             cadence == IF has_cad THEN U16(data, o2) \div 2 ELSE 0
             o3 == IF has_cad THEN o2 + 2 ELSE o2
             o4 == IF HasBit(flags, 8) THEN o3 + 2 ELSE o3
             o5 == IF HasBit(flags, 16) THEN o4 + 3 ELSE o4
             o6 == IF HasBit(flags, 32) THEN o5 + 2 ELSE o5
             has_pow == HasBit(flags, 64) /\ Len(data) > o6 + 1
             power == IF has_pow THEN S16(data, o6) ELSE 0
         IN  [ raised |-> FALSE,
               sample |-> [power |-> power, cadence |-> cadence,
                           speed_raw |-> speed_raw] ]

\* _handle_indoor_bike_data: [raised, sample].
handle_indoor_bike_data(data) ==
    IF Len(data) < 2
    THEN [raised |-> TRUE, sample |-> BikeDataDefault]
    ELSE LET flags == U16(data, 0)
             has_speed == Len(data) > 2 + 1
             speed_raw == IF has_speed THEN U16(data, 2) ELSE 0
             o1 == IF has_speed THEN 4 ELSE 2
             o2 == IF HasBit(flags, 2) THEN o1 + 2 ELSE o1
             has_cad == HasBit(flags, 4) /\ Len(data) > o2 + 1
             cadence == IF has_cad THEN U16(data, o2) \div 2 ELSE 0
             o3 == IF has_cad THEN o2 + 2 ELSE o2
             o4 == IF HasBit(flags, 8) THEN o3 + 2 ELSE o3
             o5 == IF HasBit(flags, 16) THEN o4 + 3 ELSE o4
             o6 == IF HasBit(flags, 32) THEN o5 + 2 ELSE o5
             has_pow == HasBit(flags, 64) /\ Len(data) > o6 + 1
             power == IF has_pow THEN S16(data, o6) ELSE 0
         IN  [ raised |-> FALSE,
               sample |-> [power |-> Max(0, power), cadence |-> cadence,
                           speed_raw |-> speed_raw] ]

\* A faulty _handle_cycling_power: a new sample is made of the power alone.
handle_cycling_power_fresh(last, data) ==
    IF Len(data) < 4
    THEN [raised |-> TRUE, sample |-> last]
    ELSE [raised |-> FALSE,
          sample |-> [BikeDataDefault EXCEPT !.power = Max(0, S16(data, 2))]]

\* _handle_cycling_power on the last sample: [raised, sample], the sample being
\* the last one with its power set.
handle_cycling_power(last, data) ==
    IF Len(data) < 4
    THEN [raised |-> TRUE, sample |-> last]
    ELSE [raised |-> FALSE, sample |-> [last EXCEPT !.power = Max(0, S16(data, 2))]]

\* _handle_hr_measurement: [raised, heart_rate].
handle_hr_measurement(data) ==
    LET flags == ByteAt(data, 0)
    IN  IF HasBit(flags, 1)
        THEN IF Len(data) < 3 THEN [raised |-> TRUE, heart_rate |-> 0]
             ELSE [raised |-> FALSE, heart_rate |-> U16(data, 1)]
        ELSE IF Len(data) < 2 THEN [raised |-> TRUE, heart_rate |-> 0]
             ELSE [raised |-> FALSE, heart_rate |-> ByteAt(data, 1)]

\* An Indoor Bike Data notification with a frame of the set F; the handler
\* stores the sample and hands it to on_bike_data.
IndoorBikeDataFrom(F) ==
    /\ UNCHANGED <<ble, ble_ret, wm, out, obs, builder, app, fit, za, pure>>
    /\ \E data \in F :
           LET r == handle_indoor_bike_data(data)
           IN  rx' = [rx EXCEPT !.op = "indoor_bike_data", !.frame = data,
                                !.raised = r.raised,
                                !.last_bike_data = IF r.raised THEN @ ELSE r.sample,
                                !.delivered = IF r.raised THEN @ ELSE r.sample]

\* A Cycling Power Measurement notification with a frame of the set F; the
\* handler changes the stored sample and hands that object to on_bike_data.
CyclingPowerFrom(F) ==
    /\ UNCHANGED <<ble, ble_ret, wm, out, obs, builder, app, fit, za, pure>>
    /\ \E data \in F :
           LET r == handle_cycling_power(rx.last_bike_data, data)
           IN  rx' = [rx EXCEPT !.op = "cycling_power", !.frame = data,
                                !.raised = r.raised,
                                !.last_bike_data = r.sample,
                                !.delivered = IF r.raised THEN @ ELSE r.sample]

RxIndoorBikeData == IndoorBikeDataFrom(Frames)

RxCyclingPower == CyclingPowerFrom(Frames)

\* The same notifications with frames laid out in fields.
BikeIndoorBikeData == IndoorBikeDataFrom(BikeFrames)

BikeCyclingPower == CyclingPowerFrom(BikeFrames)

RxHrMeasurement ==
    /\ UNCHANGED <<ble, ble_ret, wm, out, obs, builder, app, fit, za, pure>>
    /\ \E data \in Frames :
           LET r == handle_hr_measurement(data)
           IN  rx' = [rx EXCEPT !.op = "hr_measurement", !.frame = data,
                                !.raised = r.raised,
                                !.last_hr = IF r.raised THEN @ ELSE r.heart_rate]

(***************************************************************************)
(* ZoneAnalyzer.  Times are whole seconds and kept as ages: the code       *)
(* stores time.time() in _hr_out_of_zone_start, _last_alert_time[kind] and *)
(* _last_update_time and only uses their distance to now.                  *)
(*   n            len(self._hr_history), all the update needs of the       *)
(*                history buffers besides their contents;                  *)
(*   out_age      now - _hr_out_of_zone_start, NoAge when it is None;      *)
(*   last_alert   now - _last_alert_time.get(kind, 0), kept up to          *)
(*                alert_cooldown + 1 (a kind never fired is that old);     *)
(*   since_update now - _last_update_time, NoAge when it is None.          *)
(* What _check_cardiac_drift and _check_decoupling compute from the        *)
(* contents of the history is an input of update: drift, decoupled.        *)
(***************************************************************************)
hr_alert_delay == 10
alert_cooldown == 30
min_history == 300          \* drift and decoupling need more samples than this
decoupling_history == 600   \* decoupling needs more samples than this
history_maxlen == 3600
NoAge == -1
MaxZoneTime == 2            \* the zone-time counters stop counting here
AlertKinds == {"hr_high", "hr_low", "cardiac_drift", "decoupling"}
NoAlert == "none"

Older(age, dt, cap) == IF age = NoAge THEN NoAge ELSE Min(cap, age + dt)

ZoneAnalyzerNew(zone2_low_, zone2_high_) ==
    [ zone2_low |-> zone2_low_, zone2_high |-> zone2_high_,
      n |-> 0, out_age |-> NoAge,
      last_alert |-> [k \in AlertKinds |-> alert_cooldown + 1],
      time_in_zone |-> 0, time_above |-> 0, time_below |-> 0,
      since_update |-> NoAge, workout_start_set |-> FALSE ]

\* The clock moving on by dt seconds.
za_elapse(z, dt) ==
    [z EXCEPT !.out_age = Older(@, dt, hr_alert_delay),
              !.since_update = Older(@, dt, MaxZoneTime),
              !.last_alert = [k \in AlertKinds |-> Min(alert_cooldown + 1, @[k] + dt)]]

\* A faulty _can_alert: one cooldown shared by all the kinds.
can_alert_shared(z, alert_type) ==
    \A k \in AlertKinds : z.last_alert[k] > alert_cooldown

can_alert(z, alert_type) == z.last_alert[alert_type] > alert_cooldown

in_zone(z, hr) == z.zone2_low <= hr /\ hr <= z.zone2_high

\* A faulty _check_hr_zone: fires as soon as HR is out of the zone.
check_hr_zone_no_delay(z, hr) ==
    IF in_zone(z, hr)
    THEN [z |-> [z EXCEPT !.out_age = NoAge], alert |-> NoAlert]
    ELSE LET z1 == IF z.out_age = NoAge THEN [z EXCEPT !.out_age = 0] ELSE z
             alert_type == IF hr > z.zone2_high THEN "hr_high" ELSE "hr_low"
         IN  IF ~can_alert(z1, alert_type) THEN [z |-> z1, alert |-> NoAlert]
             ELSE [z |-> [z1 EXCEPT !.last_alert[alert_type] = 0], alert |-> alert_type]

\* _check_hr_zone: [z, alert].
check_hr_zone(z, hr) ==
    IF in_zone(z, hr)
    THEN [z |-> [z EXCEPT !.out_age = NoAge], alert |-> NoAlert]
    ELSE LET z1 == IF z.out_age = NoAge THEN [z EXCEPT !.out_age = 0] ELSE z
             alert_type == IF hr > z.zone2_high THEN "hr_high" ELSE "hr_low"
         IN  IF z1.out_age < hr_alert_delay THEN [z |-> z1, alert |-> NoAlert]
             ELSE IF ~can_alert(z1, alert_type) THEN [z |-> z1, alert |-> NoAlert]
             ELSE [z |-> [z1 EXCEPT !.last_alert[alert_type] = 0], alert |-> alert_type]

\* A faulty severity: critical only above zone2_high + 10.
hr_zone_severity_above_ten(z, hr) ==
    IF hr > z.zone2_high
    THEN IF hr <= z.zone2_high + 10 THEN "warning" ELSE "critical"
    ELSE "warning"

\* The severity of the Alert _check_hr_zone builds (lines 160-171).
hr_zone_severity(z, hr) ==
    IF hr > z.zone2_high
    THEN IF hr < z.zone2_high + 10 THEN "warning" ELSE "critical"
    ELSE "warning"

\* _check_cardiac_drift; drift: the drift computed from the history exceeds
\* the threshold.
check_cardiac_drift(z, drift) ==
    IF can_alert(z, "cardiac_drift") /\ drift
    THEN [z |-> [z EXCEPT !.last_alert["cardiac_drift"] = 0], alert |-> "cardiac_drift"]
    ELSE [z |-> z, alert |-> NoAlert]

\* A faulty _check_decoupling: the older window is taken from a history of
\* any length.
check_decoupling_any_length(z, decoupled) ==
    IF can_alert(z, "decoupling") /\ decoupled
    THEN [z |-> [z EXCEPT !.last_alert["decoupling"] = 0], alert |-> "decoupling"]
    ELSE [z |-> z, alert |-> NoAlert]

\* _check_decoupling; decoupled: what the two five-minute windows show.
check_decoupling(z, decoupled) ==
    IF can_alert(z, "decoupling") /\ z.n > decoupling_history /\ decoupled
    THEN [z |-> [z EXCEPT !.last_alert["decoupling"] = 0], alert |-> "decoupling"]
    ELSE [z |-> z, alert |-> NoAlert]

ZoneTime(t, dt) == Min(MaxZoneTime, t + dt)

\* A faulty update: the phase is not looked at.
za_update_any_phase(z0, dt, hr, phase, drift, decoupled) ==
    LET z  == za_elapse(z0, dt)
        z1 == [z EXCEPT !.workout_start_set = TRUE,
                        !.n = Min(history_maxlen, @ + 1)]
        z2 == IF z1.since_update # NoAge
              THEN IF in_zone(z1, hr)
                   THEN [z1 EXCEPT !.time_in_zone = ZoneTime(@, dt)]
                   ELSE IF hr > z1.zone2_high
                        THEN [z1 EXCEPT !.time_above = ZoneTime(@, dt)]
                        ELSE [z1 EXCEPT !.time_below = ZoneTime(@, dt)]
              ELSE z1
        z3 == [z2 EXCEPT !.since_update = 0]
        r1 == check_hr_zone(z3, hr)
    IN  [z |-> r1.z, alerts |-> {r1.alert} \ {NoAlert}]

\* update: dt seconds after the previous call (or after reset); [z, alerts].
za_update(z0, dt, hr, phase, drift, decoupled) ==
    LET z  == za_elapse(z0, dt)
        z1 == [z EXCEPT !.workout_start_set = TRUE,
                        !.n = Min(history_maxlen, @ + 1)]
        z2 == IF z1.since_update # NoAge /\ phase = "main"
              THEN IF in_zone(z1, hr)
                   THEN [z1 EXCEPT !.time_in_zone = ZoneTime(@, dt)]
                   ELSE IF hr > z1.zone2_high
                        THEN [z1 EXCEPT !.time_above = ZoneTime(@, dt)]
                        ELSE [z1 EXCEPT !.time_below = ZoneTime(@, dt)]
              ELSE z1
        z3 == [z2 EXCEPT !.since_update = 0]
    IN  IF phase # "main" THEN [z |-> z3, alerts |-> {}]
        ELSE LET r1 == check_hr_zone(z3, hr)
                 r2 == IF r1.z.n > min_history
                       THEN check_cardiac_drift(r1.z, drift)
                       ELSE [z |-> r1.z, alert |-> NoAlert]
                 r3 == IF r2.z.n > min_history
                       THEN check_decoupling(r2.z, decoupled)
                       ELSE [z |-> r2.z, alert |-> NoAlert]
             IN  [z |-> r3.z, alerts |-> {r1.alert, r2.alert, r3.alert} \ {NoAlert}]

\* A faulty reset: _last_alert_time is not cleared.
za_reset_keeps_cooldowns(z) ==
    [z EXCEPT !.n = 0, !.out_age = NoAge,
              !.time_in_zone = 0, !.time_above = 0, !.time_below = 0,
              !.since_update = NoAge, !.workout_start_set = FALSE]

\* reset: the four buffers and the cooldown dictionary are cleared, the
\* timers set to None and the counters to 0.
za_reset(z) ==
    [z EXCEPT !.n = 0, !.out_age = NoAge,
              !.last_alert = [k \in AlertKinds |-> alert_cooldown + 1],
              !.time_in_zone = 0, !.time_above = 0, !.time_below = 0,
              !.since_update = NoAge, !.workout_start_set = FALSE]

update_zones(z, zone2_low_, zone2_high_) ==
    [z EXCEPT !.zone2_low = zone2_low_, !.zone2_high = zone2_high_]


(***************************************************************************)
(* The analyzer under observation: za.a is the ZoneAnalyzer object, za.g   *)
(* what an observer of its calls has seen since the last reset:            *)
(*   op, phase, alerts   the last call, its phase and the alerts returned; *)
(*   out_run_age   time since the first of the out-of-zone samples given   *)
(*                 to update in a row up to the last one (NoAge: the last  *)
(*                 sample was inside the zone, or there is none), kept up  *)
(*                 to hr_alert_delay;                                      *)
(*   since_fired   per kind, time since an alert of the kind was last      *)
(*                 returned (NoAge: never), kept up to alert_cooldown + 1; *)
(*   gap           per kind returned by the last update, the time since    *)
(*                 the previous alert of that kind (NoAge: there is none); *)
(*   due           kinds whose own trigger and own cooldown allowed an     *)
(*                 alert at the last update;                               *)
(*   run, hits     the calls so far are run updates at 150 bpm, one per    *)
(*                 second, in main phase with zone 124-143 (NoRun: they    *)
(*                 are not), and the hr_high alerts returned over them.    *)
(***************************************************************************)
MaxUpdates == 15        \* single updates on top of the blocks of min_history
NoRun == NoAge          \* the calls made are not those of the 15-update scenario
MaxLongUpdates == 4     \* the same, where the blocks are used
ZaDts == {1, 10}
ZaHRs == {130, 150}
ZaLongDts == {10, 21}
ZaLongHRs == {110, 130, 150}
ZaPhases == {"main", "recovery"}

ObserverNew ==
    [ op |-> "init", phase |-> "", alerts |-> {},
      out_run_age |-> NoAge,
      since_fired |-> [k \in AlertKinds |-> NoAge],
      gap |-> [k \in AlertKinds |-> NoAge],
      due |-> {}, run |-> 0, hits |-> 0 ]

ZoneAnalyzerInit == [a |-> ZoneAnalyzerNew(DefaultHrLow, DefaultHrHigh), g |-> ObserverNew]

\* The kinds whose own trigger holds for this update, given the analyzer
\* after the update and the time since each kind was last returned.
DueKinds(z, since, hr, phase, drift, decoupled) ==
    IF phase # "main" THEN {}
    ELSE {k \in AlertKinds :
            /\ since[k] = NoAge \/ since[k] > alert_cooldown
            /\ CASE k = "hr_high" -> hr > z.zone2_high /\ z.out_age >= hr_alert_delay
                 [] k = "hr_low" -> hr < z.zone2_low /\ z.out_age >= hr_alert_delay
                 [] k = "cardiac_drift" -> z.n > min_history /\ drift
                 [] OTHER -> z.n > decoupling_history /\ decoupled }

\* One update call as the observer sees it.
ZaStep(zz, dt, hr, phase, drift, decoupled) ==
    LET r == za_update(zz.a, dt, hr, phase, drift, decoupled)
        since == [k \in AlertKinds |-> Older(zz.g.since_fired[k], dt, alert_cooldown + 1)]
        on_run == /\ zz.g.run # NoRun /\ zz.g.run < 15
                  /\ hr = 150 /\ phase = "main"
                  /\ zz.g.run = 0 \/ dt = 1
                  /\ zz.a.zone2_low = 124 /\ zz.a.zone2_high = 143
    IN  [ a |-> r.z,
          g |-> [ op |-> "update", phase |-> phase, alerts |-> r.alerts,
                  out_run_age |-> IF in_zone(zz.a, hr) THEN NoAge
                                  ELSE IF zz.g.out_run_age = NoAge THEN 0
                                  ELSE Older(zz.g.out_run_age, dt, hr_alert_delay),
                  since_fired |-> [k \in AlertKinds |-> IF k \in r.alerts THEN 0 ELSE since[k]],
                  gap |-> [k \in AlertKinds |->
                              IF k \in r.alerts THEN since[k] ELSE NoAge],
                  due |-> DueKinds(r.z, since, hr, phase, drift, decoupled),
                  run |-> IF on_run THEN zz.g.run + 1 ELSE NoRun,
                  hits |-> IF ~on_run THEN 0
                           ELSE zz.g.hits + (IF "hr_high" \in r.alerts THEN 1 ELSE 0) ] ]

RECURSIVE ZaRepeat(_, _, _, _)
ZaRepeat(zz, k, hr, phase) ==
    IF k = 0 THEN zz
    ELSE IF k = 1 THEN ZaStep(zz, 1, hr, phase, FALSE, FALSE)
    ELSE LET half == ZaRepeat(zz, k \div 2, hr, phase)
         IN  IF half.a.n >= 0 THEN ZaRepeat(half, k - (k \div 2), hr, phase) ELSE half

\* on_hr_data: zone_analyzer.update(hr, power, cadence, phase), while the
\* history is too short for the drift and decoupling checks.
ZaUpdate ==
    /\ UNCHANGED <<ble, ble_ret, wm, out, obs, builder, app, fit, rx, pure>>
    /\ za.a.n < MaxUpdates
    /\ \E dt \in ZaDts, hr \in ZaHRs, phase \in ZaPhases :
           za' = ZaStep(za, dt, hr, phase, FALSE, FALSE)

\* The same call at any length of the history, on coarser inputs.
ZaLongUpdate ==
    /\ UNCHANGED <<ble, ble_ret, wm, out, obs, builder, app, fit, rx, pure>>
    /\ (za.a.n % min_history) < MaxLongUpdates
    /\ \E dt \in ZaLongDts, hr \in ZaLongHRs, phase \in ZaPhases,
          drift \in BOOLEAN, decoupled \in BOOLEAN :
           za' = ZaStep(za, dt, hr, phase, drift, decoupled)

\* min_history updates in a row, one per second, outside the main phase and
\* inside the zone (a warmup).
ZaWarmup ==
    /\ UNCHANGED <<ble, ble_ret, wm, out, obs, builder, app, fit, rx, pure>>
    /\ za.a.n < 2 * min_history
    /\ za' = ZaRepeat(za, min_history, 130, "warmup")

\* update with a history around the lengths min_history and
\* decoupling_history, its contents showing both drift and decoupling.
ZaEdgeUpdate ==
    /\ UNCHANGED <<ble, ble_ret, wm, out, obs, builder, app, fit, rx, pure>>
    /\ ((za.a.n + 2) % min_history) < MaxLongUpdates
    /\ \E dt \in ZaLongDts, hr \in ZaLongHRs, phase \in ZaPhases :
           za' = ZaStep(za, dt, hr, phase, TRUE, TRUE)

\* min_history - 2 updates in a row, one per second, in a warmup.
ZaShortWarmup ==
    /\ UNCHANGED <<ble, ble_ret, wm, out, obs, builder, app, fit, rx, pure>>
    /\ za.a.n < 2 * min_history
    /\ za' = ZaRepeat(za, min_history - 2, 130, "warmup")

\* Heart rates below the default zone 124-143, inside it, and around the
\* tenth beat above it.
SevHRs == {110, 130, 144, 152, 153, 154}
SevDts == {5, 10}
MaxSevUpdates == 4

SevInit == [hr |-> 0, zone2_high |-> 0, type |-> NoAlert, severity |-> ""]

\* update, and the HR-zone Alert object among those it returned.
SevUpdate ==
    /\ UNCHANGED <<ble, ble_ret, wm, out, obs, builder, app, fit, rx, ramp, enc, pace, tally>>
    /\ za.a.n < MaxSevUpdates
    /\ \E dt \in SevDts, hr \in SevHRs :
           LET zz == ZaStep(za, dt, hr, "main", FALSE, FALSE)
               fired == zz.g.alerts \cap {"hr_high", "hr_low"}
           IN  /\ za' = zz
               /\ sev' = IF fired = {}
                         THEN [hr |-> hr, zone2_high |-> za.a.zone2_high,
                               type |-> NoAlert, severity |-> ""]
                         ELSE [hr |-> hr, zone2_high |-> za.a.zone2_high,
                               type |-> CHOOSE k \in fired : TRUE,
                               severity |-> hr_zone_severity(za.a, hr)]

\* reset; the Alert objects returned before it are what they were.
SevReset ==
    /\ UNCHANGED <<ble, ble_ret, wm, out, obs, builder, app, fit, rx, ramp, enc, pace, sev, tally>>
    /\ za' = [a |-> za_reset(za.a), g |-> [ObserverNew EXCEPT !.op = "reset"]]

SevUpdateZones ==
    /\ UNCHANGED <<ble, ble_ret, wm, out, obs, builder, app, fit, rx, ramp, enc, pace, tally>>
    /\ \E z \in HrZones :
           /\ za' = [a |-> update_zones(za.a, z[1], z[2]),
                     g |-> [za.g EXCEPT !.op = "update_zones", !.alerts = {}, !.due = {},
                                        !.run = NoRun, !.hits = 0]]
           /\ sev' = SevInit

\* handle_start_workout: zone_analyzer.reset()
ZaReset ==
    /\ UNCHANGED <<ble, ble_ret, wm, out, obs, builder, app, fit, rx, pure>>
    /\ za' = [a |-> za_reset(za.a), g |-> [ObserverNew EXCEPT !.op = "reset"]]

\* ZoneAnalyzer.update_zones(zone2_low, zone2_high), called by position.
ZaUpdateZones ==
    /\ UNCHANGED <<ble, ble_ret, wm, out, obs, builder, app, fit, rx, pure>>
    /\ \E z \in HrZones :
           za' = [a |-> update_zones(za.a, z[1], z[2]),
                  g |-> [za.g EXCEPT !.op = "update_zones", !.alerts = {}, !.due = {},
                                     !.run = NoRun, !.hits = 0]]

(***************************************************************************)
(* FitExporter._build_fit_file on its own.  enc holds a record log as      *)
(* add_record leaves it (records, start_time, end_time) and the bytes of   *)
(* the file last built from it.  Bytes are 0..255; a record is             *)
(* [timestamp, heart_rate, cadence, power, speed_mms], speed_mms being     *)
(* int(speed * 1000).                                                      *)
(***************************************************************************)
FIT_PROTOCOL_VERSION == 32
FIT_PROFILE_VERSION == 2068
MSG_FILE_ID == 0
MSG_EVENT == 21
MSG_RECORD == 20
MSG_LAP == 19
MSG_SESSION == 18
MSG_ACTIVITY == 34
TYPE_ENUM == 0
TYPE_UINT8 == 2
TYPE_UINT16 == 132
TYPE_UINT32 == 134
TYPE_UINT32Z == 140
FitEpoch == 631065600        \* 1989-12-31T00:00:00Z as a Unix timestamp
MaxEncRecords == 2
EncTime0 == 1700000000       \* a Unix timestamp of the present day
EncTimestamps == {EncTime0, EncTime0 + 1}
EncHeartRates == {150, 300}
EncPowers == {0, 200}

\* struct.pack('<B', v), ('<H', v), ('<I', v)
PackB(v) == <<v>>
PackH(v) == <<v % 256, v \div 256>>
PackI(v) == <<v % 256, (v \div 256) % 256, (v \div 65536) % 256, v \div 16777216>>
\* struct.pack('<BBB', a, b, c)
PackBBB(a, b, c) == <<a, b, c>>
\* struct.unpack('<I', data[i:i+4])[0]
U32(data, i) == U16(data, i) + 65536 * U16(data, i + 2)

\* a ^ b on non-negative integers
RECURSIVE Xor(_, _)
Xor(a, b) ==
    IF a = 0 THEN b
    ELSE IF b = 0 THEN a
    ELSE ((a + b) % 2) + 2 * Xor(a \div 2, b \div 2)

crc_table ==
    << 0, 52225, 55297, 5120, 61441, 15360, 10240, 58369,
       40961, 27648, 30720, 46081, 20480, 39937, 34817, 17408 >>

\* One turn of the loop of _calculate_crc.
crc_step(crc, byte) ==
    LET c1 == Xor(Xor((crc \div 16) % 4096, crc_table[(crc % 16) + 1]),
                  crc_table[(byte % 16) + 1])
    IN  Xor(Xor((c1 \div 16) % 4096, crc_table[(c1 % 16) + 1]),
            crc_table[((byte \div 16) % 16) + 1])

\* The loop of _calculate_crc over data[lo..hi] (1-based), started at crc.
RECURSIVE crc_loop(_, _, _, _)
crc_loop(data, lo, hi, crc) ==
    IF lo > hi THEN crc
    ELSE IF lo = hi THEN crc_step(crc, data[lo])
    ELSE LET mid == (lo + hi) \div 2
             half == crc_loop(data, lo, mid, crc)
         IN  IF half >= 0 THEN crc_loop(data, mid + 1, hi, half) ELSE half

calculate_crc(data) == crc_loop(data, 1, Len(data), 0)

\* int((fromtimestamp(ts) - fit_epoch).total_seconds())
fit_timestamp(ts) == ts - FitEpoch

\* The six bytes every definition message starts with.
DefinitionHead(local_type, msg, fields) ==
    PackB(64 + local_type) \o PackB(0) \o PackB(0) \o PackH(msg) \o PackB(fields)

build_file_id ==
    DefinitionHead(0, MSG_FILE_ID, 4)
    \o PackBBB(0, 1, TYPE_ENUM) \o PackBBB(1, 2, TYPE_UINT16)
    \o PackBBB(2, 2, TYPE_UINT16) \o PackBBB(3, 4, TYPE_UINT32Z)
    \o PackB(0) \o PackB(4) \o PackH(1) \o PackH(1) \o PackI(12345)

build_record_definition ==
    DefinitionHead(1, MSG_RECORD, 5)
    \o PackBBB(253, 4, TYPE_UINT32) \o PackBBB(3, 1, TYPE_UINT8)
    \o PackBBB(4, 1, TYPE_UINT8) \o PackBBB(7, 2, TYPE_UINT16)
    \o PackBBB(6, 2, TYPE_UINT16)

build_record_data(record) ==
    PackB(1) \o PackI(fit_timestamp(record.timestamp))
    \o PackB(Min(255, record.heart_rate)) \o PackB(Min(255, record.cadence))
    \o PackH(Min(65535, record.power)) \o PackH(Min(65535, record.speed_mms))

build_event(e, event_type, event) ==
    DefinitionHead(2, MSG_EVENT, 3)
    \o PackBBB(253, 4, TYPE_UINT32) \o PackBBB(0, 1, TYPE_ENUM)
    \o PackBBB(1, 1, TYPE_ENUM)
    \o PackB(2)
    \o PackI(fit_timestamp(IF event_type = 0 THEN e.start_time ELSE e.end_time))
    \o PackB(event) \o PackB(event_type)

elapsed_ms(e) == (e.end_time - e.start_time) * 1000
avg_hr(e) == SeqSum([i \in 1..Len(e.records) |-> e.records[i].heart_rate]) \div Len(e.records)
avg_power(e) == SeqSum([i \in 1..Len(e.records) |-> e.records[i].power]) \div Len(e.records)

build_lap(e) ==
    DefinitionHead(3, MSG_LAP, 6)
    \o PackBBB(253, 4, TYPE_UINT32) \o PackBBB(2, 4, TYPE_UINT32)
    \o PackBBB(7, 4, TYPE_UINT32) \o PackBBB(8, 4, TYPE_UINT32)
    \o PackBBB(15, 1, TYPE_UINT8) \o PackBBB(19, 2, TYPE_UINT16)
    \o PackB(3) \o PackI(fit_timestamp(e.end_time)) \o PackI(fit_timestamp(e.start_time))
    \o PackI(elapsed_ms(e)) \o PackI(elapsed_ms(e))
    \o PackB(Min(255, avg_hr(e))) \o PackH(Min(65535, avg_power(e)))

build_session(e) ==
    DefinitionHead(4, MSG_SESSION, 7)
    \o PackBBB(253, 4, TYPE_UINT32) \o PackBBB(2, 4, TYPE_UINT32)
    \o PackBBB(7, 4, TYPE_UINT32) \o PackBBB(8, 4, TYPE_UINT32)
    \o PackBBB(5, 1, TYPE_ENUM) \o PackBBB(16, 1, TYPE_UINT8)
    \o PackBBB(20, 2, TYPE_UINT16)
    \o PackB(4) \o PackI(fit_timestamp(e.end_time)) \o PackI(fit_timestamp(e.start_time))
    \o PackI(elapsed_ms(e)) \o PackI(elapsed_ms(e))
    \o PackB(2) \o PackB(Min(255, avg_hr(e))) \o PackH(Min(65535, avg_power(e)))

build_activity(e) ==
    DefinitionHead(5, MSG_ACTIVITY, 4)
    \o PackBBB(253, 4, TYPE_UINT32) \o PackBBB(0, 4, TYPE_UINT32)
    \o PackBBB(1, 2, TYPE_UINT16) \o PackBBB(2, 1, TYPE_ENUM)
    \o PackB(5) \o PackI(fit_timestamp(e.end_time)) \o PackI(elapsed_ms(e))
    \o PackH(1) \o PackB(0)

RECURSIVE build_records(_)
build_records(records) ==
    IF records = <<>> THEN <<>>
    ELSE build_record_data(Head(records)) \o build_records(Tail(records))

build_data_records(e) ==
    build_file_id \o build_event(e, 0, 0) \o build_record_definition
    \o build_records(e.records)
    \o build_event(e, 1, 0) \o build_lap(e) \o build_session(e) \o build_activity(e)

\* A faulty _build_header: the size written counts the header as well.
build_header_counts_itself(data_size) ==
    LET header_no_crc ==
            PackB(14) \o PackB(FIT_PROTOCOL_VERSION) \o PackH(FIT_PROFILE_VERSION)
            \o PackI(data_size + 14) \o <<46, 70, 73, 84>>
    IN  header_no_crc \o PackH(calculate_crc(header_no_crc))

build_header(data_size) ==
    LET header_no_crc ==
            PackB(14) \o PackB(FIT_PROTOCOL_VERSION) \o PackH(FIT_PROFILE_VERSION)
            \o PackI(data_size) \o <<46, 70, 73, 84>>       \* b'.FIT'
    IN  header_no_crc \o PackH(calculate_crc(header_no_crc))

\* struct.pack raises struct.error on a value outside the format's range:
\* the values that are not constants or capped by min are the timestamps and
\* the elapsed time, and the capped ones must not be negative.
packs(e) ==
    /\ elapsed_ms(e) >= 0
    /\ fit_timestamp(e.start_time) >= 0
    /\ \A i \in 1..Len(e.records) :
          /\ fit_timestamp(e.records[i].timestamp) >= 0
          /\ e.records[i].heart_rate >= 0 /\ e.records[i].cadence >= 0
          /\ e.records[i].power >= 0 /\ e.records[i].speed_mms >= 0

\* _build_fit_file: [raised, file]
build_fit_file(e) ==
    IF ~packs(e) THEN [raised |-> TRUE, file |-> <<>>]
    ELSE LET data_records == build_data_records(e)
             full_data == build_header(Len(data_records)) \o data_records
         IN  [raised |-> FALSE, file |-> full_data \o PackH(calculate_crc(full_data))]

EncInit ==
    [records |-> <<>>, start_time |-> NoTime, end_time |-> NoTime,
     op |-> "init", raised |-> FALSE, file |-> <<>>]

\* add_record(timestamp, heart_rate, power, cadence, speed)
EncAddRecord ==
    /\ UNCHANGED <<ble, ble_ret, wm, out, obs, builder, app, fit, rx, za, ramp, pace, sev, tally>>
    /\ Len(enc.records) < MaxEncRecords
    /\ \E ts \in EncTimestamps, hr \in EncHeartRates, pw \in EncPowers :
           enc' = [records |-> Append(enc.records,
                                      [timestamp |-> ts, heart_rate |-> hr, cadence |-> 90,
                                       power |-> pw, speed_mms |-> 8000]),
                   start_time |-> IF enc.start_time = NoTime THEN ts ELSE enc.start_time,
                   end_time |-> ts,
                   op |-> "add_record", raised |-> FALSE, file |-> <<>>]

\* export: data = self._build_fit_file(), once the log is not empty
EncBuild ==
    /\ UNCHANGED <<ble, ble_ret, wm, out, obs, builder, app, fit, rx, za, ramp, pace, sev, tally>>
    /\ enc.records # <<>>
    /\ LET r == build_fit_file(enc)
       IN  enc' = [enc EXCEPT !.op = "build", !.raised = r.raised, !.file = r.file]

(***************************************************************************)
(* WorkoutSegment.get_power_at_time on its own: ramp.seg is a segment      *)
(* (duration 0: none made yet), ramp.last and ramp.prev the last two       *)
(* calls made on it, each the elapsed time given and the power returned.   *)
(***************************************************************************)
MaxRampDuration == 4
MaxRampPower == 3
MaxRampOver == 2         \* elapsed times are followed this far past the duration
NoCall == [t |-> NoPower, p |-> NoPower]

RampInit == [seg |-> WorkoutSegment("", 0, 0, 0, "main"), prev |-> NoCall, last |-> NoCall]

\* WorkoutSegment(name, duration_seconds, target_power_start, target_power_end, phase)
RampNew ==
    /\ UNCHANGED <<ble, ble_ret, wm, out, obs, builder, app, fit, rx, za, enc, pace, sev, tally>>
    /\ \E d \in 1..MaxRampDuration, ps \in 0..MaxRampPower, pe \in 0..MaxRampPower :
           ramp' = [seg |-> WorkoutSegment("", d, ps, pe, "main"),
                    prev |-> NoCall, last |-> NoCall]

\* segment.get_power_at_time(elapsed_seconds)
RampPowerAt ==
    /\ UNCHANGED <<ble, ble_ret, wm, out, obs, builder, app, fit, rx, za, enc, pace, sev, tally>>
    /\ ramp.seg.duration_seconds > 0
    /\ \E t \in 0..(ramp.seg.duration_seconds + MaxRampOver) :
           ramp' = [ramp EXCEPT !.prev = ramp.last,
                                !.last = [t |-> t, p |-> get_power_at_time(ramp.seg, t)]]

(***************************************************************************)
(* The adaptive controller against stopwatches.  pace.since_armed and      *)
(* pace.since_changed are the seconds since update armed adaptive mode and *)
(* since get_hr_adjusted_power last returned a power, NoAge before the     *)
(* first time, and are followed up to hr_adjustment_interval.              *)
(***************************************************************************)
PaceSteps == {10, 300}   \* seconds the clock advances between two operations
PaceHRs == {150}         \* heart rates the monitor reports
MaxPaceElapsed == 310    \* segment_elapsed is followed up to this value

PaceInit == [since_armed |-> NoAge, since_changed |-> NoAge]

not_paced == <<ble, ble_ret, builder, app, fit, rx, za, ramp, enc, sev, tally>>

\* The stopwatches after an operation that made the manager w2 and that
\* returned a power or did not.
Paced(w2, returned) ==
    pace' = [ since_armed |-> IF ~wm.hr_target_mode /\ w2.hr_target_mode
                              THEN 0 ELSE pace.since_armed,
              since_changed |-> IF returned THEN 0 ELSE pace.since_changed ]

RunOn(age, d) == IF age = NoAge THEN NoAge ELSE Min(age + d, hr_adjustment_interval)

PaceStart ==
    /\ UNCHANGED not_paced
    /\ LET r == start(wm) IN wm' = r.w /\ Observe("start", r) /\ Paced(r.w, FALSE)

PaceUpdate ==
    /\ UNCHANGED not_paced
    /\ LET r == update(wm) IN wm' = r.w /\ Observe("update", r) /\ Paced(r.w, FALSE)

PaceAddHrSample ==
    /\ UNCHANGED not_paced
    /\ \E hr \in PaceHRs :
           /\ wm.hr_target_mode
           /\ wm' = add_hr_sample(wm, hr)
           /\ Observe("quiet", Quiet)
           /\ Paced(add_hr_sample(wm, hr), FALSE)

PaceAdjust ==
    /\ UNCHANGED not_paced
    /\ LET r == get_hr_adjusted_power(wm)
       IN  wm' = r.w /\ Observe("get_hr_adjusted_power", r) /\ Paced(r.w, r.ret # NoPower)

PaceAdvance ==
    /\ UNCHANGED not_paced
    /\ \E d \in PaceSteps :
           /\ clock_runs(wm)
           /\ wm.segment_elapsed + d <= MaxPaceElapsed
           /\ wm' = tick_clock(wm, d)
           /\ pace' = [ since_armed |-> RunOn(pace.since_armed, d),
                        since_changed |-> RunOn(pace.since_changed, d) ]
           /\ UNCHANGED <<out, obs>>

(***************************************************************************)
(* app.py with every update thread followed.  The two socket handlers are  *)
(* taken as one step each; a thread running workout_update_loop is taken   *)
(* one statement group at a time, so that a handler can run while the      *)
(* thread is in time.sleep(1.0).                                           *)
(***************************************************************************)
\* The thread object a new Thread(...) call gets: the first one not alive.
FreeThread == CHOOSE i \in LoopThreads :
                  /\ app.threads[i] \in {"none", "done"}
                  /\ \A j \in 1..(i - 1) : app.threads[j] \notin {"none", "done"}

\* handle_start_workout.
SessStart ==
    /\ UNCHANGED <<builder, rx, pure>>
    /\ \E i \in LoopThreads : app.threads[i] \in {"none", "done"}
    /\ fit' = clear(fit)
    /\ za' = [a |-> za_reset(za.a), g |-> [ObserverNew EXCEPT !.op = "reset"]]
    /\ LET r == start(wm) IN
       /\ wm' = r.w /\ Observe("start", r)
       /\ \E o \in AsyncOutcomes, ok_rc \in BOOLEAN :
              /\ CanTimeOut(o)
              /\ IF o = "timeout"
                 THEN /\ UNCHANGED <<ble, ble_ret>>
                      /\ app' = [app EXCEPT !.workout_active = TRUE]
                 ELSE /\ LET q == set_target_power(ble, r.w.last_target_power, ok_rc, o = "ok")
                         IN  ble' = q.b /\ ble_ret' = <<"set_target_power", q.ret>>
                      /\ app' = [app EXCEPT !.workout_active = TRUE,
                                            !.threads[FreeThread] = "test"]

\* handle_stop_workout.
SessStop ==
    /\ UNCHANGED <<builder, rx, za, pure>>
    /\ wm' = stop(wm) /\ Observe("quiet", Quiet)
    /\ app' = [app EXCEPT !.workout_active = FALSE]
    /\ \E o \in AsyncOutcomes :
           /\ CanTimeOut(o)
           /\ IF o = "timeout"
              THEN UNCHANGED <<ble, ble_ret, fit>>
              ELSE /\ LET q == stop_erg_mode(ble, o = "ok")
                      IN  ble' = q.b /\ ble_ret' = <<"stop_erg_mode", q.ret>>
                   /\ fit' = IF record_count(fit) > 0 THEN export(fit) ELSE fit

\* workout_update_loop: the while condition.
SessLoopTest ==
    /\ UNCHANGED <<ble, ble_ret, wm, out, obs, builder, fit, rx, za, pure>>
    /\ \E i \in LoopThreads :
           /\ app.threads[i] = "test"
           /\ app' = [app EXCEPT !.threads[i] =
                         IF app.workout_active /\ wm.is_running THEN "update" ELSE "check"]

\* workout_update_loop: update(), and set_target_power when it returned a power.
SessLoopUpdate ==
    /\ UNCHANGED <<builder, fit, rx, za, pure>>
    /\ \E i \in LoopThreads :
           /\ app.threads[i] = "update"
           /\ LET r == update(wm) IN
              /\ wm' = r.w /\ Observe("update", r)
              /\ IF r.ret = NoPower
                 THEN /\ UNCHANGED <<ble, ble_ret>>
                      /\ app' = [app EXCEPT !.threads[i] = "sleep"]
                 ELSE \E o \in AsyncOutcomes, ok_rc \in BOOLEAN :
                          /\ CanTimeOut(o)
                          /\ IF o = "timeout"
                             THEN /\ UNCHANGED <<ble, ble_ret>>
                                  /\ app' = [app EXCEPT !.threads[i] = "done"]
                             ELSE /\ LET q == set_target_power(ble, r.ret, ok_rc, o = "ok")
                                     IN  ble' = q.b /\ ble_ret' = <<"set_target_power", q.ret>>
                                  /\ app' = [app EXCEPT !.threads[i] = "sleep"]

\* workout_update_loop: time.sleep(1.0) returns.
SessLoopWake ==
    /\ UNCHANGED <<ble, ble_ret, wm, out, obs, builder, fit, rx, za, pure>>
    /\ \E i \in LoopThreads :
           /\ app.threads[i] = "sleep"
           /\ app' = [app EXCEPT !.threads[i] = "test"]

\* workout_update_loop past the while, with handle_workout_complete.
SessLoopCheck ==
    /\ UNCHANGED <<wm, out, obs, builder, rx, za, pure>>
    /\ \E i \in LoopThreads :
           /\ app.threads[i] = "check"
           /\ IF ~wm.is_running /\ app.workout_active
              THEN /\ app' = [app EXCEPT !.workout_active = FALSE, !.threads[i] = "done"]
                   /\ \E o \in AsyncOutcomes :
                          /\ CanTimeOut(o)
                          /\ IF o = "timeout"
                             THEN UNCHANGED <<ble, ble_ret, fit>>
                             ELSE /\ LET q == stop_erg_mode(ble, o = "ok")
                                     IN  ble' = q.b /\ ble_ret' = <<"stop_erg_mode", q.ret>>
                                  /\ fit' = IF record_count(fit) > 0 THEN export(fit) ELSE fit
              ELSE /\ app' = [app EXCEPT !.threads[i] = "done"]
                   /\ UNCHANGED <<ble, ble_ret, fit>>

NextSess ==
    \/ AppConnectTrainer
    \/ SessStart
    \/ SessStop
    \/ SessLoopTest
    \/ SessLoopUpdate
    \/ SessLoopWake
    \/ SessLoopCheck
    \/ AppAdvance

Init ==
    /\ ramp = RampInit
    /\ enc = EncInit
    /\ pace = PaceInit
    /\ sev = SevInit
    /\ tally = TallyInit
    /\ ble = BLEManagerInit
    /\ ble_ret = <<"init", TRUE>>
    /\ wm = WorkoutManagerInit
    /\ out = [op |-> "init", ev |-> <<>>, ret |-> NoPower]
    /\ obs = [emitted_before |-> NoPower, handed_before |-> NoPower, phase_before |-> -1]
    /\ builder = BuilderIdle
    /\ app = AppInit
    /\ fit = FitExporterInit
    /\ rx = DecoderInit
    /\ za = ZoneAnalyzerInit

NextLink ==
    \/ LinkConnectToDevice
    \/ LinkScan
    \/ LinkDisconnectTrainer
    \/ LinkDisconnect
    \/ LinkSetTargetPower
    \/ LinkStopErg

SpecLink == Init /\ [][NextLink]_vars

\* The controller driven by start, stop, the tick and configuration changes.
NextCtl ==
    \/ CtlStart
    \/ CtlStop
    \/ CtlUpdate
    \/ CtlSetWorkoutType
    \/ CtlSetFtp
    \/ CtlAdvance

SpecCtl == Init /\ [][NextCtl]_vars

\* The controller with its listeners counting the completion callbacks.
NextTally ==
    \/ TallyStart
    \/ TallyStop
    \/ TallyUpdate
    \/ TallySetWorkoutType
    \/ TallySetFtp
    \/ TallyAdvance

SpecTally == Init /\ [][NextTally]_vars

\* The controller with every configuration change.
NextCfg ==
    \/ CtlStart
    \/ CtlStop
    \/ CtlUpdate
    \/ CtlSetWorkoutType
    \/ CfgSetFtp
    \/ CfgSetHrZones
    \/ CtlAdvance

SpecCfg == Init /\ [][NextCfg]_vars

\* The controller of the default (zone2) workout with heart-rate feedback.
NextHr ==
    \/ CtlStart
    \/ CtlUpdate
    \/ CtlAddHrSample
    \/ CtlAdjust
    \/ CoarseSetFtp
    \/ CtlSetHrZones
    \/ CoarseAdvance

SpecHr == Init /\ [][NextHr]_vars

\* Segments of any shape asked for their power at any time.
NextRamp ==
    \/ RampNew
    \/ RampPowerAt

SpecRamp == Init /\ [][NextRamp]_vars

\* The zone2 workout followed in steps shorter than the adjustment interval.
NextPace ==
    \/ PaceStart
    \/ PaceUpdate
    \/ PaceAddHrSample
    \/ PaceAdjust
    \/ PaceAdvance

SpecPace == Init /\ [][NextPace]_vars

\* The zone2 workout with a steady heart rate in each tier of the controller.
NextTier ==
    \/ CtlStart
    \/ CtlUpdate
    \/ TierAddHrSample
    \/ CtlAdjust
    \/ CoarseAdvance

SpecTier == Init /\ [][NextTier]_vars

\* The zone2 workout with heart rates recorded at any time.
NextWin ==
    \/ CtlStart
    \/ CtlStop
    \/ CtlUpdate
    \/ CoarseAdvance
    \/ CtlRecordHr

SpecWin == Init /\ [][NextWin]_vars

\* The trainer notifying bike telemetry and cycling power.
NextBike ==
    \/ BikeIndoorBikeData
    \/ BikeCyclingPower

SpecBike == Init /\ [][NextBike]_vars

\* Record logs of any content built into files.
NextEnc ==
    \/ EncAddRecord
    \/ EncBuild

SpecEnc == Init /\ [][NextEnc]_vars

\* The same controller with the heart rate held at the midpoint of the zone.
NextMid ==
    \/ CtlStart
    \/ CtlUpdate
    \/ CtlAddMidSample
    \/ CtlAdjust
    \/ CoarseSetFtp
    \/ CtlSetHrZones
    \/ CoarseAdvance

SpecMid == Init /\ [][NextMid]_vars

\* The update loop ticking while a handler thread changes the configuration.
NextTear ==
    \/ CtlStart
    \/ CtlUpdate
    \/ CoarseAdvance
    \/ TearSetWorkoutType
    \/ TearSetFtp
    \/ TearAssign
    \/ TearAppend

SpecTear == Init /\ [][NextTear]_vars

\* The application: handlers and the update-loop thread, interleaved.
NextApp ==
    \/ AppConnectTrainer
    \/ AppSample
    \/ AppStart
    \/ AppStartWrite
    \/ LoopTest
    \/ LoopUpdate
    \/ LoopWrite
    \/ LoopCheck
    \/ CompleteFlag
    \/ CompleteErg
    \/ CompleteExport
    \/ StopFlag
    \/ StopManager
    \/ StopErg
    \/ StopExport
    \/ AppAdvance

SpecApp == Init /\ [][NextApp]_vars

\* The two socket handlers and every update thread they start.
SpecSess == Init /\ [][NextSess]_vars

\* The notification decoders fed with arbitrary frames.
NextDecode ==
    \/ RxIndoorBikeData
    \/ RxCyclingPower
    \/ RxHrMeasurement

SpecDecode == Init /\ [][NextDecode]_vars

\* The recorder: records arriving from the notification thread, exports, and
\* a clear() running statement by statement on a handler thread.
NextFit ==
    \/ FitAddRecord
    \/ FitExport
    \/ FitClearRecords
    \/ FitClearStartTime
    \/ FitClearEndTime
    \/ FitClearBackup

SpecFit == Init /\ [][NextFit]_vars

\* The ZoneAnalyzer fed with samples.
NextZone ==
    \/ ZaUpdate
    \/ ZaReset
    \/ ZaUpdateZones

SpecZone == Init /\ [][NextZone]_vars

\* The ZoneAnalyzer with a history long enough for all its checks.
NextZoneLong ==
    \/ ZaLongUpdate
    \/ ZaWarmup
    \/ ZaReset

SpecZoneLong == Init /\ [][NextZoneLong]_vars

\* The FitExporter over sessions longer than the backup interval.
NextSnap ==
    \/ SnapAddRecord
    \/ FitExport
    \/ FitClearRecords
    \/ FitClearStartTime
    \/ FitClearEndTime
    \/ FitClearBackup

SpecSnap == Init /\ [][NextSnap]_vars

\* The ZoneAnalyzer with the Alert objects of its HR-zone check.
NextSev ==
    \/ SevUpdate
    \/ SevReset
    \/ SevUpdateZones

SpecSev == Init /\ [][NextSev]_vars

\* The ZoneAnalyzer with a history just short of, at and just past the
\* lengths its drift and decoupling checks ask for.
NextZoneEdge ==
    \/ ZaEdgeUpdate
    \/ ZaShortWarmup
    \/ ZaReset

SpecZoneEdge == Init /\ [][NextZoneEdge]_vars

(***************************************************************************)
(* Claims                                                                  *)
(***************************************************************************)
\* C1: every set-target-power command a trainer session receives comes after a
\* request-control write was issued on that same session.
C1_ControlBeforePower == ble.bare_stp = {}

\* C2: a trainer session that was torn down or replaced by a new one is never
\* left holding an ERG target (a reset reached it first).
C2_NoErgLeftBehind ==
    \A s \in ble.erg_held : s = ble.trainer_client /\ s \in ble.connected

Completed == out.op = "update" /\ \E k \in DOMAIN out.ev : out.ev[k].kind = "complete"

InBand(w, p) == zone2_low(w) <= p /\ p <= zone2_high(w)

\* C4: while adaptive mode is armed the adaptive power lies within the band
\* [zone2_low, zone2_high] of the current configuration.
C4_AdaptiveWithinBand == wm.hr_target_mode => InBand(wm, wm.current_adaptive_power)

\* C5: a power-change callback for a segment comes after the phase-change
\* callback for that segment (the latest phase-change made before it is the
\* one for its segment), and start makes exactly the phase-change for segment
\* 0 followed by the power-change carrying segment 0's starting power.
C5_PhaseBeforePower ==
    /\ \A k \in PowerEvents(out.ev) :
          LET earlier == {j \in PhaseEvents(out.ev) : j < k}
          IN  /\ out.ev[k].seg = LatestPhase(obs.phase_before, [out EXCEPT !.ev = SubSeq(out.ev, 1, k - 1)])
              /\ out.op = "start" => earlier # {}
    /\ out.op = "start" =>
          out.ev = << PhaseChange(0, wm.segments[1].phase, wm.segments[1].name),
                      PowerChange(0, wm.segments[1].target_power_start) >>

\* C5 witness: a tick entered a segment and made both callbacks for it.
C5_Witness ==
    /\ out.op = "update"
    /\ PhaseEvents(out.ev) # {}
    /\ PowerEvents(out.ev) # {}
    /\ wm.current_segment_index >= 1

\* C6 as stated: a power-change callback made by update never carries the
\* value of the power-change callback made before it.
C6_NoRepeatedEvent ==
    out.op = "update" =>
        \A k \in PowerEvents(out.ev) : out.ev[k].power # obs.emitted_before

\* C6 as amended: a target power handed out by update (power-change callback)
\* or by get_hr_adjusted_power (return value) differs from the target power
\* handed out just before it by start, update or get_hr_adjusted_power.
C6_NoRepeatedTarget ==
    /\ out.op = "update" =>
          \A k \in PowerEvents(out.ev) : out.ev[k].power # obs.handed_before
    /\ (out.op = "get_hr_adjusted_power" /\ out.ret # NoPower) =>
          out.ret # obs.handed_before

\* C6 witness: update made a power-change callback with the value of the
\* previous callback, an adjustment having been handed out in between.
C6_Witness ==
    /\ out.op = "update"
    /\ \E k \in PowerEvents(out.ev) :
          /\ out.ev[k].power = obs.emitted_before
          /\ out.ev[k].power # obs.handed_before

\* C7: adaptive HR mode is armed only while the controller is running, the
\* selected template is zone2 and the current segment's phase is main.
C7_ArmedOnlyInZone2Main ==
    wm.hr_target_mode =>
        /\ wm.is_running
        /\ wm.current_workout_type = "zone2"
        /\ wm.current_segment_index >= 0
        /\ wm.current_segment_index < Len(wm.segments)
        /\ wm.segments[wm.current_segment_index + 1].phase = "main"

\* C8: the recording of a session is exported at most once, whatever the
\* interleaving of stop requests and the loop's own completion handling.
C8_ExportedAtMostOnce == fit.exports <= 1

\* C9: a stop request whose ERG-stop command failed or timed out is still
\* carried through: the handler is never cut short by an exception.
C9_StopSurvivesErgFailure == \A i \in StopRequests : app.stops[i] # "raised"

\* C10: the configuration a tick works on is consistent: the segment list is
\* the complete list of the workout type and the FTP it reads.
C10_ConsistentSnapshot ==
    (out.op = "update" /\ (wm.is_running \/ Completed)) =>
        wm.segments = build_segments(wm, wm.current_workout_type)

\* C10, a consequence: a tick never completes the workout at an index that is
\* inside the template of the selected workout type.
C10_NoEarlyCompletion ==
    Completed => wm.current_segment_index >= Len(build_segments(wm, wm.current_workout_type))

\* What the BLEManager knows of its trainer: the session, its address and the
\* ERG bookkeeping.
LinkState(b) ==
    << b.trainer_client, b.trainer_address, b.has_control,
       b.erg_mode_active, b.current_target_power >>

\* C11: a connect, scan or control-point write that reports failure leaves the
\* trainer session, the address, has_control, erg_mode_active and the last
\* commanded power as they were before the call.
C11_FailureLeavesState ==
    [][ (ble_ret'[1] \in {"connect", "scan", "set_target_power", "stop_erg_mode"}
            /\ ble_ret'[2] = FALSE)
        => LinkState(ble') = LinkState(ble) ]_vars

\* C12: no decoder raises on a frame of at least one byte.
C12_DecodersTotal == Len(rx.frame) >= 1 => ~rx.raised

\* C13: export on a recorder holding no records raises, writes no file and
\* leaves the recorder as it was.
C13_EmptyExportFails ==
    [][ (fit'.op = "export" /\ fit.records = <<>> /\ fit' # fit)
        => /\ fit'.raised
           /\ fit'.exports = fit.exports
           /\ RecorderState(fit') = RecorderState(fit) ]_vars

\* C13 witness: an export was refused on an empty recorder.
C13_Witness == fit.op = "export" /\ fit.raised /\ fit.records = <<>>

\* C14: after an export that succeeded the recorder holds no records.
C14_ExportClears == (fit.op = "export" /\ ~fit.raised) => fit.records = <<>>

\* C15: whenever records are held and no clear() is under way, start_time is
\* the timestamp of the first record and end_time that of the last.
C15_StartEndMatchLog ==
    (fit.records # <<>> /\ fit.clear_pc = "idle") =>
        /\ fit.start_time = fit.records[1]
        /\ fit.end_time = fit.records[Len(fit.records)]

HrKinds == {"hr_high", "hr_low"}

\* C16: update returns an hr_high or hr_low alert only when the out-of-zone
\* samples given to it in a row up to this one began at least hr_alert_delay
\* ago: a sample inside the zone in between starts the delay again.
C16_AlertAfterFullDelay ==
    (za.g.op = "update" /\ za.g.alerts \cap HrKinds # {})
        => za.g.out_run_age >= hr_alert_delay

\* C17: an alert returned by update comes more than alert_cooldown after the
\* previous alert of its kind since the reset, and every kind whose own
\* trigger holds and whose own previous alert is that old is returned,
\* whatever the other kinds did.
C17_CooldownPerKind ==
    za.g.op = "update" =>
        /\ \A k \in za.g.alerts : za.g.gap[k] = NoAge \/ za.g.gap[k] > alert_cooldown
        /\ za.g.due \subseteq za.g.alerts

\* C17 witness: an alert is returned again alert_cooldown + 1 after the
\* previous one of its kind, while another kind fired within alert_cooldown.
C17_Witness ==
    /\ za.g.op = "update"
    /\ \E k \in za.g.alerts :
          /\ za.g.gap[k] = alert_cooldown + 1
          /\ \E j \in AlertKinds \ {k} :
                za.g.since_fired[j] # NoAge /\ za.g.since_fired[j] <= alert_cooldown

\* C18: over 15 updates at 150 bpm, one per second, in main phase after a
\* reset with zone 124-143, hr_high is returned by the update made 10 s after
\* the first one, by no other, and nothing else is returned.
C18_OneAlertInFifteen ==
    (za.g.op = "update" /\ za.g.run \in 1..15) =>
        /\ za.g.alerts = IF za.g.run = hr_alert_delay + 1 THEN {"hr_high"} ELSE {}
        /\ za.g.hits = IF za.g.run >= hr_alert_delay + 1 THEN 1 ELSE 0

\* C18 witness: the fifteenth update of the scenario was made and one hr_high
\* alert has been returned.
C18_Witness == za.g.op = "update" /\ za.g.run = 15 /\ za.g.hits = 1

\* What an update outside the main phase is to keep, the timers taken as the
\* times they measure from.
ZaKept(z) ==
    << z.zone2_low, z.zone2_high, z.time_in_zone, z.time_above, z.time_below,
       z.out_age, z.last_alert >>

ZaOffMain == za'.g.op = "update" /\ za'.g.phase # "main" /\ za' # za

\* C19 as stated: an update outside the main phase returns no alerts and
\* changes nothing but the history and the last-update time.
C19_OnlyHistoryChanges ==
    [][ ZaOffMain =>
          /\ za'.g.alerts = {}
          /\ za'.a.workout_start_set = za.a.workout_start_set
          /\ \E dt \in ZaDts : ZaKept(za'.a) = ZaKept(za_elapse(za.a, dt)) ]_vars

\* C19 as amended: an update outside the main phase returns no alerts and
\* keeps the zone-time counters, the out-of-zone timer, the cooldown stamps
\* and the zone bounds; the history, the last-update time and, on the first
\* update after construction or reset, the workout start change.
C19_OffMainKeepsCounters ==
    [][ ZaOffMain =>
          /\ za'.g.alerts = {}
          /\ za'.a.workout_start_set
          /\ za'.a.since_update = 0
          /\ \E dt \in ZaDts : ZaKept(za'.a) = ZaKept(za_elapse(za.a, dt)) ]_vars

\* C19 witness: an update outside the main phase was made out of the zone
\* with the out-of-zone timer running and time above the zone counted.
C19_Witness ==
    /\ za.g.op = "update" /\ za.g.phase # "main"
    /\ za.g.out_run_age # NoAge
    /\ za.a.out_age # NoAge
    /\ za.a.time_above > 0

\* The mean of the HR window is the midpoint of the zone.
MeanAtMid(w) ==
    w.hr_samples # <<>> /\ SeqSum(w.hr_samples) = hr_target(w) * Len(w.hr_samples)

\* get_hr_adjusted_power called on w gets past its two early returns.
AdjustDue(w) ==
    /\ w.hr_target_mode
    /\ Len(w.hr_samples) >= min_hr_samples
    /\ w.hr_adjustment_age >= hr_adjustment_interval

\* The adjustment interval has passed since the last adjustment.
AtInterval(w) == [w EXCEPT !.hr_adjustment_age = hr_adjustment_interval]

\* C20: with adaptive mode armed and the mean of the HR window at the zone
\* midpoint, an adjustment call made once the interval has passed returns
\* nothing or a power within [zone2_low, zone2_high], leaves the adaptive
\* power within that band, and the call made one interval later changes
\* nothing: the fixed point is reached after one call at most.
C20_MidpointFixedPoint ==
    [][ (/\ out'.op = "get_hr_adjusted_power"
         /\ AdjustDue(wm) /\ MeanAtMid(wm)
         /\ wm' = get_hr_adjusted_power(wm).w)
        => /\ out'.ret # NoPower => InBand(wm', out'.ret)
           /\ InBand(wm', wm'.current_adaptive_power)
           /\ LET again == get_hr_adjusted_power(AtInterval(wm'))
              IN  /\ again.ret = NoPower
                  /\ again.w.current_adaptive_power = wm'.current_adaptive_power ]_vars

\* C20 witness: with the mean at the midpoint an adjustment call has just
\* changed the power, which was outside the band.
C20_Witness ==
    /\ out.op = "get_hr_adjusted_power"
    /\ wm.hr_target_mode /\ MeanAtMid(wm)
    /\ Len(wm.hr_samples) >= min_hr_samples
    /\ wm.hr_adjustment_age = 0
    /\ out.ret # NoPower

\* C21: get_power_at_time returns the start power at elapsed 0 and the end
\* power at the duration and past it, and of two calls on a segment the one
\* with the later elapsed time returns no less on a rising ramp and no more
\* on a falling one.
C21_RampEndpointsMonotonic ==
    LET seg == ramp.seg
        up == seg.target_power_start <= seg.target_power_end
        down == seg.target_power_start >= seg.target_power_end
    IN  /\ ramp.last.t = 0 => ramp.last.p = seg.target_power_start
        /\ (ramp.last # NoCall /\ ramp.last.t >= seg.duration_seconds)
              => ramp.last.p = seg.target_power_end
        /\ (ramp.prev # NoCall /\ ramp.prev.t <= ramp.last.t)
              => /\ up => ramp.prev.p <= ramp.last.p
                 /\ down => ramp.prev.p >= ramp.last.p
        /\ (ramp.prev # NoCall /\ ramp.prev.t >= ramp.last.t)
              => /\ up => ramp.prev.p >= ramp.last.p
                 /\ down => ramp.prev.p <= ramp.last.p

\* C21 witness: two calls strictly inside a falling ramp whose slope is not a
\* whole number returned different powers.
C21_Witness ==
    /\ ramp.prev # NoCall
    /\ 0 < ramp.prev.t /\ ramp.prev.t < ramp.last.t
    /\ ramp.last.t < ramp.seg.duration_seconds
    /\ ramp.prev.p > ramp.last.p
    /\ (ramp.seg.target_power_start - ramp.seg.target_power_end)
           % ramp.seg.duration_seconds # 0

\* C23: in a file built from a record log that is not empty the last two
\* bytes are the CRC16 of all the bytes before them, bytes 12-13 are the CRC16
\* of bytes 0-11, and the size field at bytes 4-7 is the number of bytes
\* between the 14-byte header and the trailing CRC.
C23_CrcRoundTrip ==
    (enc.op = "build" /\ ~enc.raised) =>
        LET n == Len(enc.file)
        IN  /\ n >= 16
            /\ U16(enc.file, n - 2) = calculate_crc(SubSeq(enc.file, 1, n - 2))
            /\ U16(enc.file, 12) = calculate_crc(SubSeq(enc.file, 1, 12))
            /\ U32(enc.file, 4) = n - 16
            /\ \A i \in 1..n : enc.file[i] \in 0..255

\* C23 witness: a file was built from two records, one with a heart rate
\* above 255, and its trailing CRC is not zero.
C23_Witness ==
    /\ enc.op = "build" /\ ~enc.raised
    /\ Len(enc.records) = 2
    /\ \E i \in 1..2 : enc.records[i].heart_rate > 255
    /\ U16(enc.file, Len(enc.file) - 2) # 0

\* rx holds the result of decoding a bike-telemetry frame of six bytes or
\* more whose flags have the power bit set and no other.
PowerOnlyFrame ==
    /\ rx.op = "indoor_bike_data" /\ ~rx.raised
    /\ Len(rx.frame) >= 6
    /\ U16(rx.frame, 0) = 64

\* C22 as stated: such a frame yields cadence 0, speed 0 and the signed power
\* value of the frame, or 0 when that is negative.
C22_PowerOnlyZeroSpeed ==
    PowerOnlyFrame =>
        /\ rx.delivered.cadence = 0
        /\ rx.delivered.speed_raw = 0
        /\ rx.delivered.power = Max(0, S16(rx.frame, 4))

\* C22 as amended: a frame whose flags have the power bit set and no other
\* yields cadence 0, the speed of the instantaneous-speed field that follows
\* the flags, and the signed power value that follows the speed, or 0 when
\* that is negative; a field the frame is too short for is 0.
C22_PowerOnlyFrame ==
    (rx.op = "indoor_bike_data" /\ ~rx.raised /\ U16(rx.frame, 0) = 64) =>
        /\ rx.delivered.cadence = 0
        /\ rx.delivered.speed_raw = IF Len(rx.frame) >= 4 THEN U16(rx.frame, 2) ELSE 0
        /\ rx.delivered.power = IF Len(rx.frame) >= 6 THEN Max(0, S16(rx.frame, 4)) ELSE 0

\* C22 witness: a power-only frame with a negative power value and a speed
\* that is not 0 was decoded.
C22_Witness ==
    /\ PowerOnlyFrame
    /\ S16(rx.frame, 4) < 0
    /\ U16(rx.frame, 2) > 0
    /\ rx.delivered.power = 0

\* C30: a cycling-power notification sets the power of the last bike sample
\* to the frame's signed power value, or 0 when that is negative, and keeps
\* its cadence and speed; after any bike-telemetry or cycling-power
\* notification that was decoded the last bike sample is the sample handed
\* to on_bike_data.
C30_PowerMergedAndCached ==
    [][ (rx' # rx /\ ~rx'.raised /\ rx'.op \in {"indoor_bike_data", "cycling_power"})
        => /\ rx'.last_bike_data = rx'.delivered
           /\ rx'.op = "cycling_power" =>
                 /\ rx'.last_bike_data.cadence = rx.last_bike_data.cadence
                 /\ rx'.last_bike_data.speed_raw = rx.last_bike_data.speed_raw
                 /\ rx'.last_bike_data.power = Max(0, S16(rx'.frame, 2)) ]_vars

\* C30 witness: a cycling-power notification with a negative power value came
\* after bike telemetry that carried a cadence and a speed.
C30_Witness ==
    /\ rx.op = "cycling_power" /\ ~rx.raised
    /\ S16(rx.frame, 2) < 0
    /\ rx.last_bike_data.power = 0
    /\ rx.last_bike_data.cadence > 0
    /\ rx.last_bike_data.speed_raw > 0

\* The step is a tick of a running controller.
Ticked ==
    /\ out'.op = "update"
    /\ wm.is_running /\ wm.current_segment_index >= 0
    /\ wm' = update(wm).w /\ out'.ev = update(wm).ev

\* The tick finds the current segment over.
SegmentOver ==
    /\ wm.current_segment_index < Len(wm.segments)
    /\ wm.segment_elapsed >= wm.segments[wm.current_segment_index + 1].duration_seconds

\* The tick finds or leaves no segment to run.
NoneRemains ==
    \/ wm.current_segment_index >= Len(wm.segments)
    \/ SegmentOver /\ wm.current_segment_index + 1 >= Len(wm.segments)

\* C24: a tick that finds the current segment over and another one after it
\* moves to that segment and makes its phase-change callback; a tick that
\* finds no segment remaining makes the Completed phase-change callback,
\* leaves the controller not running and adaptive mode disarmed, and returns
\* no power.
C24_AdvanceOrComplete ==
    [][ Ticked =>
          /\ (SegmentOver /\ ~NoneRemains) =>
                LET entered == wm'.segments[wm'.current_segment_index + 1]
                IN  /\ wm'.current_segment_index = wm.current_segment_index + 1
                    /\ wm'.is_running
                    /\ out'.ev # <<>>
                    /\ out'.ev[1] = PhaseChange(wm'.current_segment_index,
                                                entered.phase, entered.name)
          /\ NoneRemains =>
                /\ \E k \in DOMAIN out'.ev :
                      out'.ev[k].kind = "phase" /\ out'.ev[k].phase = "completed"
                /\ ~wm'.is_running
                /\ ~wm'.hr_target_mode
                /\ out'.ret = NoPower ]_vars

\* The most recent max_hr_samples elements of s, in order.
MostRecent(s) ==
    IF Len(s) > max_hr_samples THEN SubSeq(s, Len(s) - max_hr_samples + 1, Len(s)) ELSE s

\* The step is a call of add_hr_sample (the clock stands still during it).
Recorded ==
    /\ out'.op = "add_hr_sample"
    /\ wm'.segment_elapsed = wm.segment_elapsed
    /\ wm'.hr_adjustment_age = wm.hr_adjustment_age

\* C25: the HR window never holds more than max_hr_samples samples; a call of
\* add_hr_sample while adaptive mode is armed makes the window the most recent
\* max_hr_samples of the old window followed by the new sample and changes
\* nothing else, and a call while it is not armed changes nothing.
C25_WindowOfThirty ==
    /\ [](Len(wm.hr_samples) <= max_hr_samples)
    /\ [][ Recorded =>
             IF wm.hr_target_mode
             THEN \E hr \in HRVals :
                     wm' = [wm EXCEPT !.hr_samples = MostRecent(Append(wm.hr_samples, hr))]
             ELSE wm' = wm ]_vars

\* C25 witness: a sample was recorded into a full window: the oldest sample,
\* a 110, was taken out, the next 110 is now the oldest and the new 150 the
\* newest.
C25_Witness ==
    /\ out.op = "add_hr_sample"
    /\ out.ret = 110
    /\ Len(wm.hr_samples) = max_hr_samples
    /\ wm.hr_samples[1] = 110
    /\ wm.hr_samples[max_hr_samples] = 150

\* The step is a call of get_hr_adjusted_power (the clock stands still).
AdjustCalled ==
    /\ out'.op = "get_hr_adjusted_power"
    /\ wm'.segment_elapsed = wm.segment_elapsed
    /\ pace'.since_armed = pace.since_armed

\* C26: a call of get_hr_adjusted_power returns None and leaves the adaptive
\* power as it was unless adaptive mode is armed, the window holds at least
\* min_hr_samples samples and hr_adjustment_interval seconds have passed since
\* the last adjustment; a call that returns a power comes at least
\* hr_adjustment_interval seconds after the previous call that returned one
\* and after adaptive mode was armed.
C26_AdjustmentsPaced ==
    [][ AdjustCalled =>
          /\ ~AdjustDue(wm) =>
                /\ out'.ret = NoPower
                /\ wm'.current_adaptive_power = wm.current_adaptive_power
          /\ out'.ret # NoPower =>
                /\ wm'.current_adaptive_power # wm.current_adaptive_power
                /\ pace.since_changed \in {NoAge, hr_adjustment_interval}
                /\ pace.since_armed = hr_adjustment_interval ]_vars

\* C26 witness: a second adjustment has just lowered the adaptive power: one
\* call moves it by two steps at most, and it is three steps or more below
\* where arming put it.
C26_Witness ==
    /\ out.op = "get_hr_adjusted_power"
    /\ out.ret # NoPower
    /\ pace.since_changed = 0
    /\ wm.hr_target_mode
    /\ wm.current_adaptive_power <= zone2_power(wm) - 3 * power_step

\* The step is a call of get_hr_adjusted_power that evaluates the window.
Evaluated ==
    /\ out'.op = "get_hr_adjusted_power"
    /\ wm'.segment_elapsed = wm.segment_elapsed
    /\ AdjustDue(wm)

\* The window mean compared with an integer: avg > k, avg < k.
MeanAbove(w, k) == SeqSum(w.hr_samples) > k * Len(w.hr_samples)
MeanBelow(w, k) == SeqSum(w.hr_samples) < k * Len(w.hr_samples)
MeanInZone(w) == ~MeanAbove(w, w.hr_zone2_high) /\ ~MeanBelow(w, w.hr_zone2_low)

Clamped(w, p) == Max(zone2_low(w), Min(zone2_high(w), p))

\* The call stored and returned p if p differs from the old adaptive power,
\* and returned None with the adaptive power as it was if not.
ChangeOnly(p) ==
    IF p # wm.current_adaptive_power
    THEN out'.ret = p /\ wm'.current_adaptive_power = p
    ELSE out'.ret = NoPower /\ wm'.current_adaptive_power = wm.current_adaptive_power

MeanNearTarget(w, d) == ~MeanAbove(w, hr_target(w) + d) /\ ~MeanBelow(w, hr_target(w) - d)

\* C28 as stated: an evaluated call with the mean inside the zone moves the
\* power one step when the mean is within 3 bpm of the midpoint and off it,
\* and leaves the power unchanged in every other in-zone case.
C28_NudgeNearMidpoint ==
    [][ (Evaluated /\ MeanInZone(wm)) =>
          IF MeanNearTarget(wm, 3) /\ ~MeanNearTarget(wm, 0)
          THEN \/ ChangeOnly(Clamped(wm, wm.current_adaptive_power - power_step))
               \/ ChangeOnly(Clamped(wm, wm.current_adaptive_power + power_step))
          ELSE ChangeOnly(wm.current_adaptive_power) ]_vars

\* C28 amended: an evaluated call with the mean inside the zone lowers the
\* power one step when the mean is more than 3 bpm above the midpoint, raises
\* it one step when the mean is more than 3 bpm below, and leaves it
\* unchanged when the mean is within 3 bpm of the midpoint; the result is
\* clamped to the band and stored and returned only if it differs.
C28_DeadBandAtMidpoint ==
    [][ (Evaluated /\ MeanInZone(wm)) =>
          LET old == wm.current_adaptive_power
              candidate ==
                  IF MeanAbove(wm, hr_target(wm) + 3) THEN old - power_step
                  ELSE IF MeanBelow(wm, hr_target(wm) - 3) THEN old + power_step
                  ELSE old
          IN  ChangeOnly(Clamped(wm, candidate)) ]_vars

\* C28 witness: a steady 140 bpm, inside the zone and seven above the
\* midpoint 133, has just cost one step of power.
C28_Witness ==
    /\ out.op = "get_hr_adjusted_power"
    /\ wm.hr_adjustment_age = 0
    /\ Len(wm.hr_samples) >= min_hr_samples
    /\ wm.hr_samples[1] = 140
    /\ wm.hr_zone2_high = 143 /\ hr_target(wm) = 133
    /\ out.ret = zone2_power(wm) - power_step

\* erg_mode_active and current_target_power are what they were.
ErgKept ==
    /\ ble'.erg_mode_active = ble.erg_mode_active
    /\ ble'.current_target_power = ble.current_target_power

\* C29: a set_target_power(w) that returns True leaves erg_mode_active True
\* and current_target_power w; a stop_erg_mode that returns True leaves
\* erg_mode_active False and current_target_power 0; either one returning
\* False leaves both fields as they were.
C29_ErgFieldsFollowSuccess ==
    [][ /\ ble_ret'[1] = "set_target_power" =>
              IF ble_ret'[2]
              THEN ble'.erg_mode_active /\ ble'.current_target_power = ble_ret'[3]
              ELSE ErgKept
        /\ ble_ret'[1] = "stop_erg_mode" =>
              IF ble_ret'[2]
              THEN ~ble'.erg_mode_active /\ ble'.current_target_power = 0
              ELSE ErgKept ]_vars

\* C29 witness: set_target_power(150) had succeeded and the write of a later
\* stop_erg_mode has just failed on the connected trainer: ERG mode and the
\* 150 W are still recorded.
C29_Witness ==
    /\ ble_ret = <<"stop_erg_mode", FALSE>>
    /\ is_trainer_connected(ble)
    /\ ble.erg_mode_active
    /\ ble.current_target_power = 150

\* C31: the alerts of an update contain no cardiac_drift alert while the
\* history holds min_history samples or fewer and no decoupling alert while
\* it holds decoupling_history samples or fewer.
C31_TrendAlertsNeedHistory ==
    /\ "cardiac_drift" \in za.g.alerts => za.a.n > min_history
    /\ "decoupling" \in za.g.alerts => za.a.n > decoupling_history

\* C31 witness: an update in the main phase has brought the history to
\* exactly decoupling_history samples that show drift and decoupling: it
\* returned the cardiac_drift alert and no decoupling alert, none having been
\* returned before.
C31_Witness ==
    /\ za.g.op = "update" /\ za.g.phase = "main"
    /\ za.a.n = decoupling_history
    /\ "cardiac_drift" \in za.g.alerts
    /\ "decoupling" \notin za.g.alerts
    /\ za.g.since_fired["decoupling"] = NoAge

\* C32 as stated: a returned hr_high alert is critical exactly when the heart
\* rate is above zone2_high + 10, and a returned hr_low alert is a warning.
C32_CriticalAboveTen ==
    /\ sev.type = "hr_high" =>
          (sev.severity = "critical" <=> sev.hr > sev.zone2_high + 10)
    /\ sev.type = "hr_high" => sev.severity \in {"critical", "warning"}
    /\ sev.type = "hr_low" => sev.severity = "warning"

\* C32 amended: a returned hr_high alert is critical exactly when the heart
\* rate is zone2_high + 10 or more and a warning below that, and a returned
\* hr_low alert is a warning.
C32_CriticalFromTen ==
    /\ sev.type = "hr_high" =>
          sev.severity = (IF sev.hr >= sev.zone2_high + 10 THEN "critical" ELSE "warning")
    /\ sev.type = "hr_low" => sev.severity = "warning"

\* C32 witness: an hr_high alert was returned for a heart rate of exactly
\* zone2_high + 10.
C32_Witness ==
    /\ sev.type = "hr_high"
    /\ sev.hr = sev.zone2_high + 10
    /\ za.g.op = "update" /\ "hr_high" \in za.g.alerts

\* C33: reset leaves the analyzer as the constructor makes it for the zone
\* bounds it had: empty history, zone-time counters at zero, no out-of-zone
\* timer, no last update time and no cooldown running, the bounds being kept;
\* so every update made on it returns what it returns on a new analyzer.
C33_ResetIsFresh ==
    [][ za'.g.op = "reset" =>
          LET fresh == ZoneAnalyzerNew(za.a.zone2_low, za.a.zone2_high)
          IN  /\ za'.a = fresh
              /\ \A dt \in SevDts, hr \in SevHRs, phase \in ZaPhases :
                    za_update(za'.a, dt, hr, phase, FALSE, FALSE)
                       = za_update(fresh, dt, hr, phase, FALSE, FALSE) ]_vars

\* C33 witness: the analyzer has been reset after an update that returned an
\* hr_high alert: the history is empty and an hr_high alert may be returned
\* again.
C33_Witness ==
    /\ za.g.op = "reset"
    /\ sev.type = "hr_high"
    /\ za.a.n = 0
    /\ can_alert(za.a, "hr_high")

\* The records held that are in no file: the backup file exists once
\* _save_backup has written it (_last_backup_count > 0) and until
\* cleanup_backup removes it, and holds the first _last_backup_count records;
\* the last file export wrote holds the first fit.exported records.
Uncovered(f) ==
    LET backed_up == IF f.backup_file /\ f.last_backup_count > 0
                     THEN f.last_backup_count ELSE 0
    IN  Len(f.records) - Max(backed_up, f.exported)

\* C34: fewer than backup_interval of the records held are missing from the
\* backup file on disk (here: from the backup file and the exported file).
C34_BackupWithinThirty == Uncovered(fit) < backup_interval

\* The step is a call of the configuration method op (the clock stands still).
Configured(op) ==
    /\ out'.op = op
    /\ wm'.segment_elapsed = wm.segment_elapsed

\* Segment lists s and t have the same length and, place by place, the same
\* name, duration and phase.
SameShape(s, t) ==
    /\ Len(s) = Len(t)
    /\ \A i \in 1..Len(s) :
          /\ s[i].name = t[i].name
          /\ s[i].duration_seconds = t[i].duration_seconds
          /\ s[i].phase = t[i].phase

\* C35: set_ftp, stopped or running, keeps the workout type and the number,
\* durations and phases of the segments, gives the segments the powers of the
\* new FTP and changes nothing else but the FTP; set_hr_zones changes the two
\* zone bounds and nothing else.
C35_ConfigKeepsTemplate ==
    [][ /\ Configured("set_ftp") =>
              /\ wm'.current_workout_type = wm.current_workout_type
              /\ SameShape(wm'.segments, wm.segments)
              /\ wm'.segments = build_segments(wm', wm.current_workout_type)
              /\ wm' = [wm EXCEPT !.ftp = wm'.ftp, !.segments = wm'.segments]
        /\ Configured("set_hr_zones") =>
              /\ wm'.current_workout_type = wm.current_workout_type
              /\ wm'.segments = wm.segments
              /\ wm' = [wm EXCEPT !.hr_zone2_low = wm'.hr_zone2_low,
                                  !.hr_zone2_high = wm'.hr_zone2_high] ]_vars

\* C35 witness: set_ftp(300) has just been called during a vo2max run past
\* its first segment, and the segments carry the powers of FTP 300.
C35_Witness ==
    /\ out.op = "set_ftp"
    /\ wm.is_running /\ wm.current_segment_index >= 1
    /\ wm.current_workout_type = "vo2max"
    /\ wm.ftp = 300
    /\ wm.segments[1].target_power_start = warmup_start_power(wm)
    /\ wm.segments[1].target_power_start # warmup_start_power([ftp |-> DefaultFtp])

\* C36: whatever calls were made before it, a tick reads self.segments only at
\* indices inside the list, and a tick that finds the index at or past the
\* length of the list stops the run and makes the two completion callbacks
\* without reading a segment.
C36_TickReadsInsideList ==
    /\ \A i \in update_reads(wm) : 0 <= i /\ i < Len(wm.segments)
    /\ (wm.is_running /\ wm.current_segment_index >= Len(wm.segments)) =>
          LET r == update(wm)
          IN  /\ update_reads(wm) = {}
              /\ ~r.w.is_running
              /\ r.ev = << WorkoutComplete(wm.current_segment_index),
                           PhaseChange(wm.current_segment_index, "completed", "Complete") >>
              /\ r.ret = NoPower

\* C36 witness: during a run the workout was switched to a template with
\* fewer segments than the current index.
C36_Witness ==
    /\ wm.is_running
    /\ out.op = "quiet"
    /\ wm.current_segment_index > Len(wm.segments)

\* C37: since the last start the workout-complete callback and the Completed
\* phase-change have each been made once at most, and no tick made after
\* them or after stop has returned a power or made a phase-change or
\* power-change callback.
C37_CompletesOnce ==
    /\ tally.complete <= 1
    /\ tally.completed <= 1
    /\ ~tally.late

\* C37 witness: a run has completed and a tick has been made after that; it
\* made no callback and returned nothing.
C37_Witness ==
    /\ tally.complete = 1 /\ tally.completed = 1
    /\ out.op = "update" /\ out.ev = <<>> /\ out.ret = NoPower
    /\ ~wm.is_running
    /\ wm.current_segment_index >= Len(wm.segments)

(***************************************************************************)
(* C38: a step that moves current_segment_index forward from a segment of  *)
(* the run moves it by exactly one; it is taken only when the time since   *)
(* the segment was entered is no less than the segment's duration, and it  *)
(* restarts the segment clock at zero, whatever the tick overshot by.      *)
(***************************************************************************)
Advances ==
    /\ wm.current_segment_index >= 0
    /\ wm'.current_segment_index > wm.current_segment_index

C38_OneSegmentPerTick ==
    [][ Advances =>
            /\ wm'.current_segment_index = wm.current_segment_index + 1
            /\ wm.current_segment_index < Len(wm.segments)
            /\ wm.segment_elapsed
                   >= wm.segments[wm.current_segment_index + 1].duration_seconds
            /\ wm'.segment_elapsed = 0
            /\ out'.op = "update" ]_vars

\* A tick has entered the third segment or a later one, and the clock of
\* that segment stands at zero.
C38_Witness ==
    /\ out.op = "update"
    /\ wm.is_running
    /\ wm.current_segment_index >= 2
    /\ wm.current_segment_index < Len(wm.segments)
    /\ wm.segment_elapsed = 0
    /\ \E k \in DOMAIN out.ev :
           out.ev[k].kind = "phase" /\ out.ev[k].seg = wm.current_segment_index

(***************************************************************************)
(* C39: whatever the order of start requests, stop requests and natural    *)
(* completion, at most one thread is inside the body of the while loop of  *)
(* workout_update_loop (about to call update(), or in its sleep).          *)
(***************************************************************************)
Ticking == {i \in LoopThreads : app.threads[i] \in {"update", "sleep"}}

C39_OneTickLoop == Cardinality(Ticking) <= 1

(***************************************************************************)
(* C40: in every state of the BLEManager, _erg_mode_active is True only    *)
(* while the trainer client is connected, and _has_control is True only    *)
(* while the trainer client is connected and a request-control write has   *)
(* returned on that client.                                                *)
(***************************************************************************)
C40_FlagsHaveSession ==
    /\ ble.erg_mode_active => is_trainer_connected(ble)
    /\ ble.has_control => /\ is_trainer_connected(ble)
                          /\ ble.trainer_client \in ble.rc_ok

====
